---- MODULE Spec2Model ----
(***************************************************************************)
(* A model of the replicated key-value store of Open/R (KvStore.cpp).      *)
(*                                                                         *)
(* KvStore owns one KvStoreDb per configured area.  A KvStoreDb holds the  *)
(* key-value map, the ttl countdown queue, the peer table with the per-    *)
(* peer state machine, and the timers that drive full-sync.  Handlers run  *)
(* to completion on one event base, so every handler is one action.        *)
(*                                                                         *)
(* Handlers are written as state transformers over a context record: the   *)
(* state of one node (its KvStoreDb instances and the store-level flags)   *)
(* together with what the handler emitted (RPCs issued, items pushed to    *)
(* the internal queues).  An action applies a handler to the current state *)
(* of a node and commits the context it returns.                           *)
(***************************************************************************)
EXTENDS Integers, Sequences, FiniteSets, Bags, TLC

VARIABLES
  kvStoreDb,              \* node -> (configured area -> KvStoreDb state)
  initialSyncSignalSent,  \* node -> BOOLEAN  (KvStore::initialSyncSignalSent_)
  aborted,                \* node -> BOOLEAN  (a CHECK failed: process is gone)
  rpcs,                   \* thrift requests in flight, awaiting their callback
  now,                    \* steady clock, in units of ttlDecr
  out,                    \* what the last handler received and emitted
  numKvStoreSynced,       \* node -> number of KVSTORE_SYNCED pushed so far
  cmdKeySet,              \* node -> the counter kvstore.cmd_key_set
  alg                     \* merge-order runs: operands and results;
                          \* mesh: the maps the two stores started with;
                          \* expiry: key -> time of the merge that wrote it;
                          \* self-originated keys: the client calls made
                          \* while the unset throttle is armed

vars == <<kvStoreDb, initialSyncSignalSent, aborted, rpcs, now, out,
          numKvStoreSynced, cmdKeySet, alg>>

----------------------------------------------------------------------------
(* Bounds of the model *)

MaxVersion == 2
MaxTtlVersion == 1
MaxTtl == 2
MaxTime == 3
MaxErrors == 2
MaxRpc == 2
MaxSyncRpc == 3
MaxKeySet == 3
MaxMeshSets == 1
FloodBurst == 1

----------------------------------------------------------------------------
(* Names *)

NodeIds == {"A", "B", "C", "D"}
AreaIds == {"1", "2"}
Payloads == {"x", "y"}

\* std::string::compare on the strings the model uses (byte order)
StringOrder == <<"0", "1", "2", "A", "B", "C", "D", "t", "x", "y">>
Rank(s) == CHOOSE i \in 1..Len(StringOrder) : StringOrder[i] = s
StrCompare(s, t) ==
  IF Rank(s) > Rank(t) THEN 1 ELSE IF Rank(s) < Rank(t) THEN -1 ELSE 0

\* Constants::kTtlInfinity
kTtlInfinity == -2147483647 - 1
\* kvParams_.ttlDecr: one clock unit
ttlDecr == 1

\* std::optional<binary> value without a value, optional hash without a value
NoValue == "nullopt"
NoHash == <<>>

IDLE == "IDLE"
SYNCING == "SYNCING"
INITIALIZED == "INITIALIZED"
PEER_ADD == "PEER_ADD"
PEER_DEL == "PEER_DEL"
SYNC_RESP_RCVD == "SYNC_RESP_RCVD"
THRIFT_API_ERROR == "THRIFT_API_ERROR"
UNDEFINED == "UNDEFINED"

----------------------------------------------------------------------------
(* Finite maps: std::unordered_map as a function on the keys it holds *)

EmptyMap == <<>>
Restrict(m, S) == [x \in DOMAIN m \cap S |-> m[x]]

----------------------------------------------------------------------------
(* thrift::Value and thrift::Publication *)

generateHash(version, originatorId, value) == <<version, originatorId, value>>

Value(version, originatorId, value, ttl, ttlVersion) ==
  [version |-> version, originatorId |-> originatorId, value |-> value,
   ttl |-> ttl, ttlVersion |-> ttlVersion, hash |-> NoHash]

Publication(keyVals, expiredKeys, nodeIds, tobeUpdatedKeys) ==
  [keyVals |-> keyVals, expiredKeys |-> expiredKeys, nodeIds |-> nodeIds,
   tobeUpdatedKeys |-> tobeUpdatedKeys]

EmptyPublication == Publication(EmptyMap, {}, <<>>, {})

SeqRange(s) == {s[i] : i \in 1..Len(s)}

\* One statement after another: v is computed once and F continues with it
With(v, F(_)) == CHOOSE r \in {F(x) : x \in {v}} : TRUE

----------------------------------------------------------------------------
(* KvStore::mergeKeyValues, one (key, value) of the loop.                  *)
(* `ub` is what the build does when the loop reads kvStore.end(): a value  *)
(* with version 0 for a key the map lacks passes the version checks and    *)
(* reaches the originatorId comparison with no entry to compare against.   *)
(* The read can make any later branch run: "all" (the record is stored),   *)
(* "skip" (nothing), or "abort" (the ttl branch, whose CHECK fails, or a   *)
(* fault on the read itself).                                              *)

UbOutcomes == {"all", "skip", "abort"}

MergeBadUpdate(has, cur, value, ub) ==
  LET myVersion == IF has THEN cur.version ELSE 0
      newVersion == value.version
  IN  IF value.ttl # kTtlInfinity /\ value.ttl <= 0 THEN "skip"
      ELSE IF value.value # NoValue
      THEN IF newVersion # myVersion THEN "all"
           ELSE IF ~has THEN ub
           ELSE IF StrCompare(value.originatorId, cur.originatorId) > 0 THEN "all"
           ELSE IF value.originatorId = cur.originatorId
           THEN LET rc == StrCompare(value.value, cur.value)
                IN  IF rc > 0 THEN "all"
                    ELSE IF rc = 0 /\ value.ttlVersion > cur.ttlVersion THEN "ttl"
                    ELSE "skip"
           ELSE "skip"
      ELSE IF has /\ value.version = cur.version
                  /\ value.originatorId = cur.originatorId
                  /\ value.ttlVersion > cur.ttlVersion THEN "ttl"
      ELSE "skip"

MergeNoPayloadTiebreak(has, cur, value, ub) ==
  LET myVersion == IF has THEN cur.version ELSE 0
      newVersion == value.version
  IN  IF value.ttl # kTtlInfinity /\ value.ttl <= 0 THEN "skip"
      ELSE IF newVersion < myVersion THEN "skip"
      ELSE IF value.value # NoValue
      THEN IF newVersion > myVersion THEN "all"
           ELSE IF ~has THEN ub
           ELSE IF StrCompare(value.originatorId, cur.originatorId) > 0 THEN "all"
           ELSE IF value.originatorId = cur.originatorId
           THEN LET rc == StrCompare(value.value, cur.value)
                IN  IF rc = 0 /\ value.ttlVersion > cur.ttlVersion THEN "ttl"
                    ELSE "skip"
           ELSE "skip"
      ELSE IF has /\ value.version = cur.version
                  /\ value.originatorId = cur.originatorId
                  /\ value.ttlVersion > cur.ttlVersion THEN "ttl"
      ELSE "skip"

MergeTtlAnyVersion(has, cur, value, ub) ==
  LET myVersion == IF has THEN cur.version ELSE 0
      newVersion == value.version
  IN  IF value.ttl # kTtlInfinity /\ value.ttl <= 0 THEN "skip"
      ELSE IF newVersion < myVersion THEN "skip"
      ELSE IF value.value # NoValue
      THEN IF newVersion > myVersion THEN "all"
           ELSE IF ~has THEN ub
           ELSE IF StrCompare(value.originatorId, cur.originatorId) > 0 THEN "all"
           ELSE IF value.originatorId = cur.originatorId
           THEN LET rc == StrCompare(value.value, cur.value)
                IN  IF rc > 0 THEN "all"
                    ELSE IF rc = 0 /\ value.ttlVersion # cur.ttlVersion THEN "ttl"
                    ELSE "skip"
           ELSE "skip"
      ELSE IF has /\ value.version = cur.version
                  /\ value.originatorId = cur.originatorId
                  /\ value.ttlVersion # cur.ttlVersion THEN "ttl"
      ELSE "skip"

MergeDecision(has, cur, value, ub) ==
  LET myVersion == IF has THEN cur.version ELSE 0
      newVersion == value.version
  IN  IF value.ttl # kTtlInfinity /\ value.ttl <= 0 THEN "skip"
      ELSE IF newVersion < myVersion THEN "skip"
      ELSE IF value.value # NoValue
      THEN IF newVersion > myVersion THEN "all"
           ELSE IF ~has THEN ub
           ELSE IF StrCompare(value.originatorId, cur.originatorId) > 0 THEN "all"
           ELSE IF value.originatorId = cur.originatorId
           THEN LET rc == StrCompare(value.value, cur.value)
                IN  IF rc > 0 THEN "all"
                    ELSE IF rc = 0 /\ value.ttlVersion > cur.ttlVersion THEN "ttl"
                    ELSE "skip"
           ELSE "skip"
      ELSE IF has /\ value.version = cur.version
                  /\ value.originatorId = cur.originatorId
                  /\ value.ttlVersion > cur.ttlVersion THEN "ttl"
      ELSE "skip"

\* MergedEntry storing the received record whole on a ttl update as well
MergedEntryReplacesOnTtl(cur, value, decision) ==
  IF value.hash = NoHash /\ value.value # NoValue
  THEN [value EXCEPT !.hash =
          generateHash(value.version, value.originatorId, value.value)]
  ELSE value

\* The entry the map holds after the loop body ran for (key, value).
MergedEntry(cur, value, decision) ==
  IF decision = "all"
  THEN IF value.hash = NoHash
       THEN [value EXCEPT !.hash =
               generateHash(value.version, value.originatorId, value.value)]
       ELSE value
  ELSE [cur EXCEPT !.ttl = value.ttl, !.ttlVersion = value.ttlVersion]

\* KvStore::mergeKeyValues: the map is updated in place, the accepted
\* (key, received value) pairs are returned.  CHECK failures set abort.
MergeKeyValuesAnnouncesAll(kvStore, keyVals, ub) ==
  LET dec(k) == MergeDecision(k \in DOMAIN kvStore,
                              IF k \in DOMAIN kvStore THEN kvStore[k] ELSE keyVals[k],
                              keyVals[k], ub)
      accepted == {k \in DOMAIN keyVals : dec(k) \in {"all", "ttl"}}
  IN  [kvStore |-> [k \in DOMAIN kvStore \cup accepted |->
                      IF k \in accepted
                      THEN MergedEntry(IF k \in DOMAIN kvStore THEN kvStore[k]
                                       ELSE keyVals[k], keyVals[k], dec(k))
                      ELSE kvStore[k]],
       kvUpdates |-> keyVals,
       abort |-> \E k \in DOMAIN keyVals : dec(k) = "abort"]

mergeKeyValues(kvStore, keyVals, ub) ==
  LET dec(k) == MergeDecision(k \in DOMAIN kvStore,
                              IF k \in DOMAIN kvStore THEN kvStore[k] ELSE keyVals[k],
                              keyVals[k], ub)
      accepted == {k \in DOMAIN keyVals : dec(k) \in {"all", "ttl"}}
  IN  [kvStore |-> [k \in DOMAIN kvStore \cup accepted |->
                      IF k \in accepted
                      THEN MergedEntry(IF k \in DOMAIN kvStore THEN kvStore[k]
                                       ELSE keyVals[k], keyVals[k], dec(k))
                      ELSE kvStore[k]],
       kvUpdates |-> Restrict(keyVals, accepted),
       abort |-> \E k \in DOMAIN keyVals : dec(k) = "abort"]

----------------------------------------------------------------------------
(* KvStore::compareValues: 1 (v1 better), -1 (v2 better), 0 (same),        *)
(* -2 (unknown: a value is missing and the hashes do not settle it)        *)

compareValues(v1, v2) ==
  IF v1.version # v2.version
  THEN (IF v1.version > v2.version THEN 1 ELSE -1)
  ELSE IF v1.originatorId # v2.originatorId
  THEN (IF StrCompare(v1.originatorId, v2.originatorId) > 0 THEN 1 ELSE -1)
  ELSE IF v1.hash # NoHash /\ v2.hash # NoHash /\ v1.hash = v2.hash
  THEN (IF v1.ttlVersion # v2.ttlVersion
        THEN (IF v1.ttlVersion > v2.ttlVersion THEN 1 ELSE -1)
        ELSE 0)
  ELSE IF v1.value # NoValue /\ v2.value # NoValue
  THEN StrCompare(v1.value, v2.value)
  ELSE -2

\* dumpHashWithFilters with the empty filter: every entry, value left out
dumpHashWithFilters(kvStore) ==
  [k \in DOMAIN kvStore |-> [kvStore[k] EXCEPT !.value = NoValue]]

\* dumpAllWithFilters with the empty filter
dumpAllWithFilters(kvStore) ==
  Publication(kvStore, {}, <<>>, {})

\* KvStoreDb::dumpDifference
DumpDifferenceSkipsUnknown(myKeyVal, reqKeyVal) ==
  LET common == DOMAIN myKeyVal \cap DOMAIN reqKeyVal
      rc(k) == compareValues(myKeyVal[k], reqKeyVal[k])
  IN  Publication(
        Restrict(myKeyVal, (DOMAIN myKeyVal \ DOMAIN reqKeyVal)
                           \cup {k \in common : rc(k) = 1}),
        {}, <<>>,
        (DOMAIN reqKeyVal \ DOMAIN myKeyVal)
          \cup {k \in common : rc(k) = -1})

dumpDifference(myKeyVal, reqKeyVal) ==
  LET common == DOMAIN myKeyVal \cap DOMAIN reqKeyVal
      rc(k) == compareValues(myKeyVal[k], reqKeyVal[k])
  IN  Publication(
        Restrict(myKeyVal, (DOMAIN myKeyVal \ DOMAIN reqKeyVal)
                           \cup {k \in common : rc(k) \in {1, -2}}),
        {}, <<>>,
        (DOMAIN reqKeyVal \ DOMAIN myKeyVal)
          \cup {k \in common : rc(k) \in {-1, -2}})

----------------------------------------------------------------------------
(* The ttl countdown queue.  An entry is                                   *)
(*   [expiryTime, key, version, originatorId, ttlVersion];                 *)
(* the priority queue is the set of its entries, top() a minimum.          *)

TtlCountdownQueueEntry(expiryTime, key, value) ==
  [expiryTime |-> expiryTime, key |-> key, version |-> value.version,
   originatorId |-> value.originatorId, ttlVersion |-> value.ttlVersion]

TopExpiry(queue) ==
  CHOOSE t \in {e.expiryTime : e \in queue} :
    \A e \in queue : t <= e.expiryTime

EntryMatches(e, key, value) ==
  /\ e.key = key
  /\ e.version = value.version
  /\ e.originatorId = value.originatorId
  /\ e.ttlVersion = value.ttlVersion

\* updatePublicationTtl (removeAboutToExpire = false).  The loop runs over
\* the queue's container; when several entries match one key the last one
\* visited sets the ttl, and `pick` names which that is.
PickChoices == {"earliest", "latest"}

UpdatePublicationTtlNoDecrement(queue, thriftPub, timeNow, pick) ==
  LET matches(k) == {e \in queue : EntryMatches(e, k, thriftPub.keyVals[k])}
      erased == {k \in DOMAIN thriftPub.keyVals :
                   \E e \in matches(k) : e.expiryTime - timeNow <= ttlDecr}
      last(k) == IF pick = "earliest"
                 THEN CHOOSE e \in matches(k) :
                        \A f \in matches(k) : e.expiryTime <= f.expiryTime
                 ELSE CHOOSE e \in matches(k) :
                        \A f \in matches(k) : e.expiryTime >= f.expiryTime
  IN  [thriftPub EXCEPT !.keyVals =
         [k \in DOMAIN thriftPub.keyVals \ erased |->
            IF matches(k) = {} THEN thriftPub.keyVals[k]
            ELSE [thriftPub.keyVals[k] EXCEPT
                    !.ttl = last(k).expiryTime - timeNow]]]

updatePublicationTtl(queue, thriftPub, timeNow, pick) ==
  LET matches(k) == {e \in queue : EntryMatches(e, k, thriftPub.keyVals[k])}
      erased == {k \in DOMAIN thriftPub.keyVals :
                   \E e \in matches(k) : e.expiryTime - timeNow <= ttlDecr}
      last(k) == IF pick = "earliest"
                 THEN CHOOSE e \in matches(k) :
                        \A f \in matches(k) : e.expiryTime <= f.expiryTime
                 ELSE CHOOSE e \in matches(k) :
                        \A f \in matches(k) : e.expiryTime >= f.expiryTime
  IN  [thriftPub EXCEPT !.keyVals =
         [k \in DOMAIN thriftPub.keyVals \ erased |->
            IF matches(k) = {} THEN thriftPub.keyVals[k]
            ELSE [thriftPub.keyVals[k] EXCEPT
                    !.ttl = (last(k).expiryTime - timeNow) - ttlDecr]]]

----------------------------------------------------------------------------
(* The per-peer state machine *)

\* KvStoreDb::getNextState: the sparse matrix of the source, rows IDLE,
\* SYNCING, INITIALIZED; columns PEER_ADD, PEER_DEL, SYNC_RESP_RCVD,
\* THRIFT_API_ERROR.  UNDEFINED is std::nullopt, on which the CHECK fails.
stateMap ==
  [s \in {IDLE, SYNCING, INITIALIZED} |->
     [e \in {PEER_ADD, PEER_DEL, SYNC_RESP_RCVD, THRIFT_API_ERROR} |->
        CASE s = IDLE /\ e = PEER_ADD -> SYNCING
          [] s = IDLE /\ e = THRIFT_API_ERROR -> IDLE
          [] s = SYNCING /\ e = SYNC_RESP_RCVD -> INITIALIZED
          [] s = SYNCING /\ e = THRIFT_API_ERROR -> IDLE
          [] s = INITIALIZED /\ e = SYNC_RESP_RCVD -> INITIALIZED
          [] s = INITIALIZED /\ e = THRIFT_API_ERROR -> IDLE
          [] OTHER -> UNDEFINED]]

getNextState(currState, event) == stateMap[currState][event]

\* parallelSyncLimitOverThrift_ at construction, and the ceiling
\* Constants::kMaxFullSyncPendingCountThreshold it doubles up to
kInitialParallelSyncLimit == 2
kMaxFullSyncPendingCountThreshold == 4

\* KvStorePeer as the constructor leaves it
KvStorePeer(peerAddr) ==
  [peerAddr |-> peerAddr, state |-> IDLE, client |-> FALSE,
   keepAliveTimer |-> FALSE, canTryNow |-> TRUE, numThriftApiErrors |-> 0,
   pendingKeysDuringInitialization |-> {}]

\* KvStoreDb as the constructor leaves it
KvStoreDb ==
  [kvStore |-> EmptyMap, ttlCountdownQueue |-> {}, ttlCountdownTimer |-> {},
   thriftPeers |-> EmptyMap, thriftSyncTimer |-> FALSE,
   parallelSyncLimitOverThrift |-> kInitialParallelSyncLimit,
   initialSyncCompleted |-> FALSE,
   floodRate |-> FALSE, floodTokens |-> 0,
   publicationBuffer |-> {}, pendingPublicationTimer |-> FALSE,
   selfOriginatedKeyVals |-> EmptyMap, keysToAdvertise |-> {},
   keysToUnset |-> EmptyMap,
   advertiseSelfOriginatedKeysThrottled |-> FALSE,
   unsetSelfOriginatedKeysThrottled |-> FALSE,
   advertiseKeyValsTimer |-> FALSE]

getPeersByState(db, state) ==
  {p \in DOMAIN db.thriftPeers : db.thriftPeers[p].state = state}

----------------------------------------------------------------------------
(* The context a handler runs in: the node's state and what it emitted.    *)

NoSender == "nullopt"

\* No exception left the handler
NoError == ""

\* thrift::KvStoreError("Invalid area: ...")
InvalidArea == "Invalid area"

\* Constants::kDefaultArea
kDefaultArea == "0"

\* getAreaDbOrThrow with no fallback to the single area
GetAreaDbNoFallback(dbs, areaId) ==
  IF areaId \in DOMAIN dbs THEN areaId ELSE InvalidArea

\* KvStore::getAreaDbOrThrow: the area that serves a request naming areaId,
\* or InvalidArea when the lookup throws
getAreaDbOrThrow(dbs, areaId) ==
  IF areaId \in DOMAIN dbs THEN areaId
  ELSE IF /\ Cardinality(DOMAIN dbs) = 1
          /\ (kDefaultArea \in DOMAIN dbs \/ areaId = kDefaultArea)
       THEN CHOOSE a \in DOMAIN dbs : TRUE
       ELSE InvalidArea

Ctx(n) ==
  [self |-> n, dbs |-> kvStoreDb[n],
   initialSyncSignalSent |-> initialSyncSignalSent[n],
   numKvStoreSynced |-> numKvStoreSynced[n],
   cmdKeySet |-> cmdKeySet[n],
   aborted |-> FALSE, timeNow |-> now,
   sent |-> {}, pushed |-> <<>>, syncEvents |-> {}, applied |-> {},
   peerAdds |-> {}, error |-> NoError]

Rpc(purpose, to, area, params) ==
  [purpose |-> purpose, to |-> to, area |-> area, params |-> params]

\* KvStore::initialKvStoreDbSynced
SyncedIgnoringAreas(c) ==
  IF ~c.initialSyncSignalSent
  THEN [c EXCEPT !.pushed = Append(@, [type |-> "InitializationEvent",
                                       event |-> "KVSTORE_SYNCED"]),
                 !.initialSyncSignalSent = TRUE,
                 !.numKvStoreSynced = @ + 1]
  ELSE c

SyncedWithoutFlag(c) ==
  IF \E a \in DOMAIN c.dbs : ~c.dbs[a].initialSyncCompleted THEN c
  ELSE IF ~c.initialSyncSignalSent
  THEN [c EXCEPT !.pushed = Append(@, [type |-> "InitializationEvent",
                                       event |-> "KVSTORE_SYNCED"]),
                 !.numKvStoreSynced = @ + 1]
  ELSE c

initialKvStoreDbSynced(c) ==
  IF \E a \in DOMAIN c.dbs : ~c.dbs[a].initialSyncCompleted THEN c
  ELSE IF ~c.initialSyncSignalSent
  THEN [c EXCEPT !.pushed = Append(@, [type |-> "InitializationEvent",
                                       event |-> "KVSTORE_SYNCED"]),
                 !.initialSyncSignalSent = TRUE,
                 !.numKvStoreSynced = @ + 1]
  ELSE c

\* KvStoreDb::processInitializationEvent
processInitializationEvent(c, a) ==
  LET peers == c.dbs[a].thriftPeers
  IN  IF \E p \in DOMAIN peers :
           peers[p].state # INITIALIZED /\ ~(peers[p].numThriftApiErrors > 0)
      THEN c
      ELSE initialKvStoreDbSynced(
             [c EXCEPT !.dbs[a].initialSyncCompleted = TRUE])

\* A state transition of peer p on `event`; the CHECK of getNextState
\* aborts the process on an undefined cell.
Transition(c, a, p, event) ==
  LET oldState == c.dbs[a].thriftPeers[p].state
      nextState == getNextState(oldState, event)
  IN  IF nextState = UNDEFINED
      THEN [c EXCEPT !.aborted = TRUE,
                     !.applied = @ \cup {<<oldState, event, UNDEFINED>>}]
      ELSE [c EXCEPT !.dbs[a].thriftPeers[p].state = nextState,
                     !.applied = @ \cup {<<oldState, event, nextState>>}]

\* KvStoreDb::processThriftFailure
ThriftFailureKeepsClient(c, a, peerName) ==
  IF peerName \notin DOMAIN c.dbs[a].thriftPeers THEN c
  ELSE
    With([c EXCEPT !.dbs[a].thriftPeers[peerName].keepAliveTimer = FALSE,
                   !.dbs[a].thriftPeers[peerName].canTryNow = FALSE], LAMBDA c1 :
    With(Transition(c1, a, peerName, THRIFT_API_ERROR), LAMBDA c2 :
    With([c2 EXCEPT !.dbs[a].thriftPeers[peerName].numThriftApiErrors = @ + 1],
         LAMBDA c3 :
    With(IF ~c3.dbs[a].initialSyncCompleted
         THEN processInitializationEvent(c3, a) ELSE c3, LAMBDA c4 :
      [c4 EXCEPT !.dbs[a].thriftSyncTimer = TRUE]))))

ThriftFailureKeepsState(c, a, peerName) ==
  IF peerName \notin DOMAIN c.dbs[a].thriftPeers THEN c
  ELSE
    With([c EXCEPT !.dbs[a].thriftPeers[peerName].keepAliveTimer = FALSE,
                   !.dbs[a].thriftPeers[peerName].canTryNow = FALSE,
                   !.dbs[a].thriftPeers[peerName].client = FALSE], LAMBDA c1 :
    With([c1 EXCEPT !.dbs[a].thriftPeers[peerName].numThriftApiErrors = @ + 1],
         LAMBDA c3 :
    With(IF ~c3.dbs[a].initialSyncCompleted
         THEN processInitializationEvent(c3, a) ELSE c3, LAMBDA c4 :
      [c4 EXCEPT !.dbs[a].thriftSyncTimer = TRUE])))

processThriftFailure(c, a, peerName) ==
  IF peerName \notin DOMAIN c.dbs[a].thriftPeers THEN c
  ELSE
    With([c EXCEPT !.dbs[a].thriftPeers[peerName].keepAliveTimer = FALSE,
                   !.dbs[a].thriftPeers[peerName].canTryNow = FALSE,
                   !.dbs[a].thriftPeers[peerName].client = FALSE], LAMBDA c1 :
    With(Transition(c1, a, peerName, THRIFT_API_ERROR), LAMBDA c2 :
    With([c2 EXCEPT !.dbs[a].thriftPeers[peerName].numThriftApiErrors = @ + 1],
         LAMBDA c3 :
    With(IF ~c3.dbs[a].initialSyncCompleted
         THEN processInitializationEvent(c3, a) ELSE c3, LAMBDA c4 :
      [c4 EXCEPT !.dbs[a].thriftSyncTimer = TRUE]))))

\* KvStoreDb::updateTtlCountdownQueue
UpdateTtlQueueKeepsTimer(c, a, publication) ==
  LET finite == {k \in DOMAIN publication.keyVals :
                   publication.keyVals[k].ttl # kTtlInfinity}
      entries == {TtlCountdownQueueEntry(
                    c.timeNow + publication.keyVals[k].ttl, k,
                    publication.keyVals[k]) : k \in finite}
      queue == c.dbs[a].ttlCountdownQueue
      first == TopExpiry(entries)
  IN  IF finite = {} THEN c
      ELSE [c EXCEPT
             !.dbs[a].ttlCountdownQueue = queue \cup entries,
             !.dbs[a].ttlCountdownTimer =
                IF queue = {} THEN {first} ELSE @]

updateTtlCountdownQueue(c, a, publication) ==
  LET finite == {k \in DOMAIN publication.keyVals :
                   publication.keyVals[k].ttl # kTtlInfinity}
      entries == {TtlCountdownQueueEntry(
                    c.timeNow + publication.keyVals[k].ttl, k,
                    publication.keyVals[k]) : k \in finite}
      queue == c.dbs[a].ttlCountdownQueue
      first == TopExpiry(entries)
  IN  IF finite = {} THEN c
      ELSE [c EXCEPT
             !.dbs[a].ttlCountdownQueue = queue \cup entries,
             !.dbs[a].ttlCountdownTimer =
                IF queue = {} \/ first <= TopExpiry(queue) THEN {first} ELSE @]

\* KvStoreDb::processPublicationForSelfOriginatedKey.  An entry of the
\* cache is [value, keyBackoff]; keyBackoff is "ready" (canTryNow),
\* "waiting", or "none" (std::nullopt).
processPublicationForSelfOriginatedKey(c, a, publication) ==
  LET cache == c.dbs[a].selfOriginatedKeyVals
      seen == {k \in DOMAIN cache \cap DOMAIN publication.keyVals :
                 /\ publication.keyVals[k].value # NoValue
                 /\ cache[k].value.version <= publication.keyVals[k].version}
      shouldOverride ==
        {k \in seen :
           \/ cache[k].value.version < publication.keyVals[k].version
           \/ publication.keyVals[k].originatorId # c.self
           \/ cache[k].value.value # publication.keyVals[k].value}
  IN  IF cache = EmptyMap THEN c
      ELSE [c EXCEPT
              !.dbs[a].selfOriginatedKeyVals =
                 [k \in DOMAIN cache |->
                    IF k \in shouldOverride
                    THEN [cache[k] EXCEPT
                            !.value.ttlVersion = 0,
                            !.value.version = publication.keyVals[k].version + 1]
                    ELSE IF k \in seen /\ cache[k].value.ttlVersion <
                                            publication.keyVals[k].ttlVersion
                    THEN [cache[k] EXCEPT !.value.ttlVersion =
                            publication.keyVals[k].ttlVersion]
                    ELSE cache[k]],
              !.dbs[a].keysToAdvertise = @ \cup shouldOverride,
              !.dbs[a].advertiseSelfOriginatedKeysThrottled = TRUE]

\* KvStoreDb::bufferPublication, with a single flood root
bufferPublication(c, a, publication) ==
  [c EXCEPT !.dbs[a].publicationBuffer =
              @ \cup DOMAIN publication.keyVals \cup publication.expiredKeys]

\* KvStoreDb::floodPublication.  floodLimiter_ exists when a flood rate is
\* configured (floodRate); consume(1) succeeds while the bucket holds a
\* token (floodTokens).  The callers other than floodBufferedUpdates leave
\* rateLimit at its default, true.
RECURSIVE floodPublication(_, _, _, _, _)

\* KvStoreDb::floodBufferedUpdates
FloodBufferedUpdatesDropsExpired(c, a, pick) ==
  LET db == c.dbs[a]
      keys == db.publicationBuffer
  IN  IF keys = {} THEN c
      ELSE floodPublication(
             [c EXCEPT !.dbs[a].publicationBuffer = {}], a,
             Publication(Restrict(db.kvStore, keys \cap DOMAIN db.kvStore),
                         {}, <<>>, {}),
             FALSE, pick)

floodBufferedUpdates(c, a, pick) ==
  LET db == c.dbs[a]
      keys == db.publicationBuffer
  IN  IF keys = {} THEN c
      ELSE floodPublication(
             [c EXCEPT !.dbs[a].publicationBuffer = {}], a,
             Publication(Restrict(db.kvStore, keys \cap DOMAIN db.kvStore),
                         keys \ DOMAIN db.kvStore, <<>>, {}),
             FALSE, pick)

FloodPublicationAnyState(c, a, publication, rateLimit, pick) ==
  IF c.dbs[a].floodRate /\ rateLimit /\ c.dbs[a].floodTokens = 0
  THEN [bufferPublication(c, a, publication) EXCEPT
          !.dbs[a].pendingPublicationTimer = TRUE]
  ELSE
  With(IF c.dbs[a].floodRate /\ rateLimit
       THEN [c EXCEPT !.dbs[a].floodTokens = @ - 1] ELSE c, LAMBDA c0 :
  IF c0.dbs[a].publicationBuffer # {}
  THEN floodBufferedUpdates(bufferPublication(c0, a, publication), a, pick)
  ELSE
  With(updatePublicationTtl(c0.dbs[a].ttlCountdownQueue, publication,
                            c0.timeNow, pick), LAMBDA pub1 :
    LET db == c0.dbs[a]
        senderId == IF Len(pub1.nodeIds) > 0
                    THEN pub1.nodeIds[Len(pub1.nodeIds)] ELSE NoSender
        pub2 == [pub1 EXCEPT !.nodeIds = Append(@, c0.self)]
        c1 == processPublicationForSelfOriginatedKey(
                [c0 EXCEPT !.pushed = Append(@, [type |-> "Publication",
                                                 area |-> a, pub |-> pub2])],
                a, pub2)
        keys == DOMAIN pub2.keyVals
        targets == {p \in DOMAIN db.thriftPeers : p # senderId}
        ready == {p \in targets : db.thriftPeers[p].state # IDLE}
    IN  IF DOMAIN pub1.keyVals = {} /\ pub1.expiredKeys = {} THEN c0
        ELSE IF keys = {} THEN c1
        ELSE [c1 EXCEPT
               !.dbs[a].thriftPeers =
                  [p \in DOMAIN db.thriftPeers |->
                     IF p \in targets \ ready
                     THEN [db.thriftPeers[p] EXCEPT
                             !.pendingKeysDuringInitialization = @ \cup keys]
                     ELSE db.thriftPeers[p]],
               !.sent = @ \cup {Rpc("FLOOD_PUB", p, a,
                                    Publication(pub2.keyVals, {}, pub2.nodeIds, {}))
                                : p \in ready},
               !.aborted = @ \/ \E p \in ready : ~db.thriftPeers[p].client]))

floodPublication(c, a, publication, rateLimit, pick) ==
  IF c.dbs[a].floodRate /\ rateLimit /\ c.dbs[a].floodTokens = 0
  THEN [bufferPublication(c, a, publication) EXCEPT
          !.dbs[a].pendingPublicationTimer = TRUE]
  ELSE
  With(IF c.dbs[a].floodRate /\ rateLimit
       THEN [c EXCEPT !.dbs[a].floodTokens = @ - 1] ELSE c, LAMBDA c0 :
  IF c0.dbs[a].publicationBuffer # {}
  THEN floodBufferedUpdates(bufferPublication(c0, a, publication), a, pick)
  ELSE
  With(updatePublicationTtl(c0.dbs[a].ttlCountdownQueue, publication,
                            c0.timeNow, pick), LAMBDA pub1 :
    LET db == c0.dbs[a]
        senderId == IF Len(pub1.nodeIds) > 0
                    THEN pub1.nodeIds[Len(pub1.nodeIds)] ELSE NoSender
        pub2 == [pub1 EXCEPT !.nodeIds = Append(@, c0.self)]
        c1 == processPublicationForSelfOriginatedKey(
                [c0 EXCEPT !.pushed = Append(@, [type |-> "Publication",
                                                 area |-> a, pub |-> pub2])],
                a, pub2)
        keys == DOMAIN pub2.keyVals
        targets == {p \in DOMAIN db.thriftPeers : p # senderId}
        ready == {p \in targets : db.thriftPeers[p].state = INITIALIZED}
    IN  IF DOMAIN pub1.keyVals = {} /\ pub1.expiredKeys = {} THEN c0
        ELSE IF keys = {} THEN c1
        ELSE [c1 EXCEPT
               !.dbs[a].thriftPeers =
                  [p \in DOMAIN db.thriftPeers |->
                     IF p \in targets \ ready
                     THEN [db.thriftPeers[p] EXCEPT
                             !.pendingKeysDuringInitialization = @ \cup keys]
                     ELSE db.thriftPeers[p]],
               !.sent = @ \cup {Rpc("FLOOD_PUB", p, a,
                                    Publication(pub2.keyVals, {}, pub2.nodeIds, {}))
                                : p \in ready},
               !.aborted = @ \/ \E p \in ready : ~db.thriftPeers[p].client]))

\* The callback of pendingPublicationTimer_
pendingPublicationTimerFires(c, a, pick) ==
  IF c.dbs[a].floodTokens = 0
  THEN [c EXCEPT !.dbs[a].pendingPublicationTimer = TRUE]
  ELSE floodBufferedUpdates(
         [c EXCEPT !.dbs[a].pendingPublicationTimer = FALSE,
                   !.dbs[a].floodTokens = @ - 1], a, pick)

\* KvStoreDb::finalizeFullSync
FinalizeFullSyncWhenInitialized(c, a, keys, senderId, pick) ==
  With(updatePublicationTtl(
         c.dbs[a].ttlCountdownQueue,
         Publication(Restrict(c.dbs[a].kvStore, keys), {}, <<>>, {}),
         c.timeNow, pick), LAMBDA updates :
    LET db == c.dbs[a]
    IN  IF DOMAIN updates.keyVals = {} THEN c
        ELSE IF senderId \notin DOMAIN db.thriftPeers THEN c
        ELSE IF db.thriftPeers[senderId].state # INITIALIZED
                \/ ~db.thriftPeers[senderId].client THEN c
        ELSE [c EXCEPT !.sent = @ \cup
                {Rpc("FINALIZE_SYNC", senderId, a,
                     Publication(updates.keyVals, {}, <<c.self>>, {}))}])

finalizeFullSync(c, a, keys, senderId, pick) ==
  With(updatePublicationTtl(
         c.dbs[a].ttlCountdownQueue,
         Publication(Restrict(c.dbs[a].kvStore, keys), {}, <<>>, {}),
         c.timeNow, pick), LAMBDA updates :
    LET db == c.dbs[a]
    IN  IF DOMAIN updates.keyVals = {} THEN c
        ELSE IF senderId \notin DOMAIN db.thriftPeers THEN c
        ELSE IF db.thriftPeers[senderId].state = IDLE
                \/ ~db.thriftPeers[senderId].client THEN c
        ELSE [c EXCEPT !.sent = @ \cup
                {Rpc("FINALIZE_SYNC", senderId, a,
                     Publication(updates.keyVals, {}, <<c.self>>, {}))}])

\* KvStoreDb::mergePublication
MergePublicationNoLoopCheck(c, a, rcvdPublication, senderId, env) ==
  LET peers == c.dbs[a].thriftPeers
      known == senderId # NoSender /\ senderId \in DOMAIN peers
      keysTobeUpdated ==
        rcvdPublication.tobeUpdatedKeys \cup
          (IF known THEN peers[senderId].pendingKeysDuringInitialization ELSE {})
      needFinalizeFullSync == senderId # NoSender /\ keysTobeUpdated # {}
  IN
  With(IF known
       THEN [c EXCEPT !.dbs[a].thriftPeers[senderId]
                         .pendingKeysDuringInitialization = {}]
       ELSE c, LAMBDA c1 :
    IF DOMAIN rcvdPublication.keyVals = {} /\ ~needFinalizeFullSync THEN c1
    ELSE
    With(mergeKeyValues(c1.dbs[a].kvStore, rcvdPublication.keyVals, env.ub),
         LAMBDA merged :
    With(Publication(merged.kvUpdates, {}, rcvdPublication.nodeIds, {}),
         LAMBDA deltaPublication :
    With(updateTtlCountdownQueue(
           [c1 EXCEPT !.dbs[a].kvStore = merged.kvStore,
                      !.aborted = @ \/ merged.abort],
           a, deltaPublication), LAMBDA c3 :
    With(IF DOMAIN deltaPublication.keyVals # {}
         THEN floodPublication(c3, a, deltaPublication, TRUE, env.pick) ELSE c3,
         LAMBDA c4 :
      IF needFinalizeFullSync
      THEN finalizeFullSync(c4, a, keysTobeUpdated, senderId, env.pick)
      ELSE c4)))))

mergePublication(c, a, rcvdPublication, senderId, env) ==
  LET peers == c.dbs[a].thriftPeers
      known == senderId # NoSender /\ senderId \in DOMAIN peers
      keysTobeUpdated ==
        rcvdPublication.tobeUpdatedKeys \cup
          (IF known THEN peers[senderId].pendingKeysDuringInitialization ELSE {})
      needFinalizeFullSync == senderId # NoSender /\ keysTobeUpdated # {}
  IN
  With(IF known
       THEN [c EXCEPT !.dbs[a].thriftPeers[senderId]
                         .pendingKeysDuringInitialization = {}]
       ELSE c, LAMBDA c1 :
    IF DOMAIN rcvdPublication.keyVals = {} /\ ~needFinalizeFullSync THEN c1
    ELSE IF c.self \in SeqRange(rcvdPublication.nodeIds) THEN c1
    ELSE
    With(mergeKeyValues(c1.dbs[a].kvStore, rcvdPublication.keyVals, env.ub),
         LAMBDA merged :
    With(Publication(merged.kvUpdates, {}, rcvdPublication.nodeIds, {}),
         LAMBDA deltaPublication :
    With(updateTtlCountdownQueue(
           [c1 EXCEPT !.dbs[a].kvStore = merged.kvStore,
                      !.aborted = @ \/ merged.abort],
           a, deltaPublication), LAMBDA c3 :
    With(IF DOMAIN deltaPublication.keyVals # {}
         THEN floodPublication(c3, a, deltaPublication, TRUE, env.pick) ELSE c3,
         LAMBDA c4 :
      IF needFinalizeFullSync
      THEN finalizeFullSync(c4, a, keysTobeUpdated, senderId, env.pick)
      ELSE c4)))))

----------------------------------------------------------------------------
(* Peer management and full sync.                                          *)

\* KvStorePeer::getOrCreateThriftClient; ok says whether the connection
\* attempt goes through.
getOrCreateThriftClient(peer, ok) ==
  IF peer.client THEN peer
  ELSE IF ok THEN [peer EXCEPT !.client = TRUE, !.keepAliveTimer = TRUE]
  ELSE [peer EXCEPT !.keepAliveTimer = FALSE, !.client = FALSE,
                    !.canTryNow = FALSE]

\* The scan of KvStoreDb::requestThriftPeerSync over thriftPeers_ in the
\* iteration order `order`; r is [c, numThriftPeersInSync].
RECURSIVE SyncScan(_, _, _, _)
SyncScan(r, a, order, connOk) ==
  IF order = <<>> THEN r
  ELSE
    LET peerName == Head(order)
        thriftPeer == r.c.dbs[a].thriftPeers[peerName]
        n == r.numThriftPeersInSync + 1
    IN
    IF thriftPeer.state # IDLE THEN SyncScan(r, a, Tail(order), connOk)
    ELSE IF ~thriftPeer.canTryNow THEN SyncScan(r, a, Tail(order), connOk)
    ELSE
    With(getOrCreateThriftClient(thriftPeer, peerName \in connOk), LAMBDA tried :
    With([r.c EXCEPT !.dbs[a].thriftPeers[peerName] = tried], LAMBDA c1 :
      IF ~tried.client
      THEN With([r EXCEPT !.c = c1],
                LAMBDA r1 : SyncScan(r1, a, Tail(order), connOk))
      ELSE
      With(Transition(c1, a, peerName, PEER_ADD), LAMBDA c2 :
      With([c |-> [c2 EXCEPT !.sent = @ \cup
                     {Rpc("FULL_SYNC", peerName, a,
                          [keyValHashes |-> dumpHashWithFilters(c2.dbs[a].kvStore),
                           senderId |-> c2.self])}],
            numThriftPeersInSync |-> n], LAMBDA r3 :
        IF n > r.c.dbs[a].parallelSyncLimitOverThrift THEN r3
        ELSE SyncScan(r3, a, Tail(order), connOk)))))

\* requestThriftPeerSync scheduling the next round only when over the limit
RequestSyncForgetsIdle(c, a, env) ==
  With([c |-> [c EXCEPT !.dbs[a].thriftSyncTimer = FALSE],
        numThriftPeersInSync |->
           Cardinality(getPeersByState(c.dbs[a], SYNCING))], LAMBDA r0 :
  With(SyncScan(r0, a, env.order, env.connOk), LAMBDA r :
    LET numThriftPeersInIdle == Cardinality(getPeersByState(r.c.dbs[a], IDLE))
    IN  IF numThriftPeersInIdle < 0
           \/ r.numThriftPeersInSync > r.c.dbs[a].parallelSyncLimitOverThrift
        THEN [r.c EXCEPT !.dbs[a].thriftSyncTimer = TRUE]
        ELSE r.c))

\* KvStoreDb::requestThriftPeerSync, run when thriftSyncTimer_ fires
requestThriftPeerSync(c, a, env) ==
  With([c |-> [c EXCEPT !.dbs[a].thriftSyncTimer = FALSE],
        numThriftPeersInSync |->
           Cardinality(getPeersByState(c.dbs[a], SYNCING))], LAMBDA r0 :
  With(SyncScan(r0, a, env.order, env.connOk), LAMBDA r :
    LET numThriftPeersInIdle == Cardinality(getPeersByState(r.c.dbs[a], IDLE))
    IN  IF numThriftPeersInIdle > 0
           \/ r.numThriftPeersInSync > r.c.dbs[a].parallelSyncLimitOverThrift
        THEN [r.c EXCEPT !.dbs[a].thriftSyncTimer = TRUE]
        ELSE r.c))

Min(x, y) == IF x <= y THEN x ELSE y

\* KvStoreDb::processThriftSuccess
ThriftSuccessNoPeerCheck(c, a, peerName, pub, env) ==
  IF peerName \notin DOMAIN c.dbs[a].thriftPeers
  THEN mergePublication(c, a, pub, peerName, env)
  ELSE IF c.dbs[a].thriftPeers[peerName].state = IDLE THEN c
  ELSE
    With(mergePublication(c, a, pub, peerName, env), LAMBDA c1 :
    With(Transition(c1, a, peerName, SYNC_RESP_RCVD), LAMBDA c2 :
    With([c2 EXCEPT
            !.syncEvents = @ \cup {[nodeName |-> peerName, area |-> a]},
            !.dbs[a].parallelSyncLimitOverThrift =
               Min(2 * @, kMaxFullSyncPendingCountThreshold)], LAMBDA c3 :
    With([c3 EXCEPT !.dbs[a].thriftSyncTimer =
                      getPeersByState(c3.dbs[a], IDLE) # {}], LAMBDA c4 :
      IF ~c4.dbs[a].initialSyncCompleted
      THEN processInitializationEvent(c4, a) ELSE c4))))

ThriftSuccessNoIdleGuard(c, a, peerName, pub, env) ==
  IF peerName \notin DOMAIN c.dbs[a].thriftPeers THEN c
  ELSE
    With(mergePublication(c, a, pub, peerName, env), LAMBDA c1 :
    With(Transition(c1, a, peerName, SYNC_RESP_RCVD), LAMBDA c2 :
    With([c2 EXCEPT
            !.syncEvents = @ \cup {[nodeName |-> peerName, area |-> a]},
            !.dbs[a].parallelSyncLimitOverThrift =
               Min(2 * @, kMaxFullSyncPendingCountThreshold)], LAMBDA c3 :
    With([c3 EXCEPT !.dbs[a].thriftSyncTimer =
                      getPeersByState(c3.dbs[a], IDLE) # {}], LAMBDA c4 :
      IF ~c4.dbs[a].initialSyncCompleted
      THEN processInitializationEvent(c4, a) ELSE c4))))

ThriftSuccessNoCeiling(c, a, peerName, pub, env) ==
  IF peerName \notin DOMAIN c.dbs[a].thriftPeers THEN c
  ELSE IF c.dbs[a].thriftPeers[peerName].state = IDLE THEN c
  ELSE
    With(mergePublication(c, a, pub, peerName, env), LAMBDA c1 :
    With(Transition(c1, a, peerName, SYNC_RESP_RCVD), LAMBDA c2 :
    With([c2 EXCEPT
            !.syncEvents = @ \cup {[nodeName |-> peerName, area |-> a]},
            !.dbs[a].parallelSyncLimitOverThrift =
               2 * @], LAMBDA c3 :
    With([c3 EXCEPT !.dbs[a].thriftSyncTimer =
                      getPeersByState(c3.dbs[a], IDLE) # {}], LAMBDA c4 :
      IF ~c4.dbs[a].initialSyncCompleted
      THEN processInitializationEvent(c4, a) ELSE c4))))

processThriftSuccess(c, a, peerName, pub, env) ==
  IF peerName \notin DOMAIN c.dbs[a].thriftPeers THEN c
  ELSE IF c.dbs[a].thriftPeers[peerName].state = IDLE THEN c
  ELSE
    With(mergePublication(c, a, pub, peerName, env), LAMBDA c1 :
    With(Transition(c1, a, peerName, SYNC_RESP_RCVD), LAMBDA c2 :
    With([c2 EXCEPT
            !.syncEvents = @ \cup {[nodeName |-> peerName, area |-> a]},
            !.dbs[a].parallelSyncLimitOverThrift =
               Min(2 * @, kMaxFullSyncPendingCountThreshold)], LAMBDA c3 :
    With([c3 EXCEPT !.dbs[a].thriftSyncTimer =
                      getPeersByState(c3.dbs[a], IDLE) # {}], LAMBDA c4 :
      IF ~c4.dbs[a].initialSyncCompleted
      THEN processInitializationEvent(c4, a) ELSE c4))))

\* KvStoreDb::addThriftPeers; peers maps a peer name to its address.
\* peerAdds keeps what the handler logs of each peer named: the state it
\* was in, "absent" for a peer not known before.
AddThriftPeersKeepsSameAddress(c, a, peers, env) ==
  LET old == c.dbs[a].thriftPeers
      entry(p) ==
        IF p \in DOMAIN old /\ old[p].peerAddr = peers[p] /\ old[p].client
        THEN old[p]
        ELSE getOrCreateThriftClient(
               IF p \in DOMAIN old
               THEN [old[p] EXCEPT !.peerAddr = peers[p], !.state = IDLE,
                                   !.keepAliveTimer = FALSE, !.client = FALSE]
               ELSE KvStorePeer(peers[p]),
               p \in env.connOk)
  IN  [c EXCEPT
        !.dbs[a].thriftPeers =
           [p \in DOMAIN old \cup DOMAIN peers |->
              IF p \in DOMAIN peers THEN entry(p) ELSE old[p]],
        !.dbs[a].thriftSyncTimer = TRUE,
        !.peerAdds = @ \cup
           {<<a, p, IF p \in DOMAIN old THEN old[p].state ELSE "absent">>
              : p \in DOMAIN peers}]

addThriftPeers(c, a, peers, env) ==
  LET old == c.dbs[a].thriftPeers
      entry(p) ==
        getOrCreateThriftClient(
          IF p \in DOMAIN old
          THEN [old[p] EXCEPT !.peerAddr = peers[p], !.state = IDLE,
                              !.keepAliveTimer = FALSE, !.client = FALSE]
          ELSE KvStorePeer(peers[p]),
          p \in env.connOk)
  IN  [c EXCEPT
        !.dbs[a].thriftPeers =
           [p \in DOMAIN old \cup DOMAIN peers |->
              IF p \in DOMAIN peers THEN entry(p) ELSE old[p]],
        !.dbs[a].thriftSyncTimer = TRUE,
        !.peerAdds = @ \cup
           {<<a, p, IF p \in DOMAIN old THEN old[p].state ELSE "absent">>
              : p \in DOMAIN peers}]

\* The callback of a peer's keepAliveTimer, made in addThriftPeers: the
\* CHECK on the client aborts the process; getStatus is sent without a
\* callback and the timer is scheduled again.
keepAliveTimerFires(c, a, name) ==
  IF ~c.dbs[a].thriftPeers[name].client THEN [c EXCEPT !.aborted = TRUE]
  ELSE [c EXCEPT !.dbs[a].thriftPeers[name].keepAliveTimer = TRUE]

\* KvStoreDb::delThriftPeers
delThriftPeers(c, a, peers) ==
  [c EXCEPT !.dbs[a].thriftPeers = Restrict(@, DOMAIN @ \ peers)]

\* KvStore::semifuture_addUpdateKvStorePeers and
\* KvStore::semifuture_deleteKvStorePeers; an unknown area or an empty
\* argument is answered with KvStoreError and changes nothing.
semifuture_addUpdateKvStorePeers(c, area, peersToAdd, env) ==
  With(getAreaDbOrThrow(c.dbs, area), LAMBDA a :
    IF a = InvalidArea THEN [c EXCEPT !.error = InvalidArea]
    ELSE IF DOMAIN peersToAdd = {} THEN c
    ELSE addThriftPeers(c, a, peersToAdd, env))

semifuture_deleteKvStorePeers(c, area, peersToDel) ==
  With(getAreaDbOrThrow(c.dbs, area), LAMBDA a :
    IF a = InvalidArea THEN [c EXCEPT !.error = InvalidArea]
    ELSE IF peersToDel = {} THEN c
    ELSE delThriftPeers(c, a, peersToDel))

\* A set as a sequence, in one fixed order
RECURSIVE SetToSeq(_)
SetToSeq(S) ==
  IF S = {} THEN <<>>
  ELSE LET x == CHOOSE y \in S : \A z \in S : Rank(y) <= Rank(z)
       IN  <<x>> \o SetToSeq(S \ {x})

\* The two loops of KvStore::processPeerUpdates
RECURSIVE ApplyAreaPeerEvents(_, _, _, _)
ApplyAreaPeerEvents(c, event, areas, env) ==
  IF areas = <<>> THEN c
  ELSE
    LET area == Head(areas)
    IN
    With(IF DOMAIN event[area].peersToAdd # {}
         THEN semifuture_addUpdateKvStorePeers(
                c, area, event[area].peersToAdd, env)
         ELSE c, LAMBDA c1 :
    With(IF event[area].peersToDel # {}
         THEN semifuture_deleteKvStorePeers(c1, area, event[area].peersToDel)
         ELSE c1, LAMBDA c2 :
      ApplyAreaPeerEvents(c2, event, Tail(areas), env)))

RECURSIVE MarkEmptyAreas(_, _)
MarkEmptyAreas(c, areas) ==
  IF areas = <<>> THEN c
  ELSE
    LET area == Head(areas)
    IN  With(IF Cardinality(DOMAIN c.dbs[area].thriftPeers) # 0 THEN c
             ELSE processInitializationEvent(c, area),
             LAMBDA c1 : MarkEmptyAreas(c1, Tail(areas)))

ProcessPeerUpdatesNoEmptyCheck(c, event, env) ==
  ApplyAreaPeerEvents(c, event, SetToSeq(DOMAIN event), env)

processPeerUpdates(c, event, env) ==
  With(ApplyAreaPeerEvents(c, event, SetToSeq(DOMAIN event), env), LAMBDA c1 :
    IF ~c1.initialSyncSignalSent
    THEN MarkEmptyAreas(c1, SetToSeq(DOMAIN c1.dbs))
    ELSE c1)

----------------------------------------------------------------------------
(* Key expiry, key set and key dump.                                       *)

\* cleanupTtlCountdownQueue flooding the evicted records as key-values
CleanupFloodsExpiredRecords(c, a) ==
  LET db == c.dbs[a]
      due == {e \in db.ttlCountdownQueue : e.expiryTime <= c.timeNow}
      rest == db.ttlCountdownQueue \ due
      expiredKeys == {k \in DOMAIN db.kvStore :
                        \E e \in due : EntryMatches(e, k, db.kvStore[k])}
  IN
  With([c EXCEPT
          !.dbs[a].kvStore = Restrict(@, DOMAIN @ \ expiredKeys),
          !.dbs[a].ttlCountdownQueue = rest,
          !.dbs[a].ttlCountdownTimer =
             IF rest # {} THEN {TopExpiry(rest)} ELSE {}], LAMBDA c1 :
    IF expiredKeys = {} THEN c1
    ELSE floodPublication(c1, a,
           Publication(Restrict(db.kvStore, expiredKeys), {}, <<>>, {}),
           TRUE, "earliest"))

\* KvStoreDb::cleanupTtlCountdownQueue, run when ttlCountdownTimer_ fires
cleanupTtlCountdownQueue(c, a) ==
  LET db == c.dbs[a]
      due == {e \in db.ttlCountdownQueue : e.expiryTime <= c.timeNow}
      rest == db.ttlCountdownQueue \ due
      expiredKeys == {k \in DOMAIN db.kvStore :
                        \E e \in due : EntryMatches(e, k, db.kvStore[k])}
  IN
  With([c EXCEPT
          !.dbs[a].kvStore = Restrict(@, DOMAIN @ \ expiredKeys),
          !.dbs[a].ttlCountdownQueue = rest,
          !.dbs[a].ttlCountdownTimer =
             IF rest # {} THEN {TopExpiry(rest)} ELSE {}], LAMBDA c1 :
    IF expiredKeys = {} THEN c1
    ELSE floodPublication(c1, a, Publication(EmptyMap, expiredKeys, <<>>, {}),
                          TRUE, "earliest"))

\* KvStoreDb::setKeyVals, reached through KvStore::semifuture_setKvStoreKeyVals
setKeyVals(c, area, setParams, env) ==
  With(getAreaDbOrThrow(c.dbs, area), LAMBDA a :
  IF a = InvalidArea THEN [c EXCEPT !.error = InvalidArea]
  ELSE
    With([k \in DOMAIN setParams.keyVals |->
            IF setParams.keyVals[k].value # NoValue
            THEN [setParams.keyVals[k] EXCEPT !.hash =
                    generateHash(setParams.keyVals[k].version,
                                 setParams.keyVals[k].originatorId,
                                 setParams.keyVals[k].value)]
            ELSE setParams.keyVals[k]], LAMBDA keyVals :
    With(Publication(keyVals, {}, setParams.nodeIds, {}), LAMBDA rcvdPublication :
    With([c EXCEPT !.cmdKeySet = @ + 1], LAMBDA c1 :
      mergePublication(c1, a, rcvdPublication, NoSender, env)))))

\* kvParams_.keyTtl of the runs: self-originated keys do not expire
keyTtl == kTtlInfinity

\* persistSelfOriginatedKey without the early return on an unchanged payload
PersistNoEarlyReturn(c, a, key, value) ==
  LET db == c.dbs[a]
      cache == db.selfOriginatedKeyVals
      cached == key \in DOMAIN cache
      inStore == key \in DOMAIN db.kvStore
      thriftValue == IF cached THEN cache[key].value
                     ELSE IF inStore THEN db.kvStore[key]
                     ELSE Value(1, c.self, value, keyTtl, 0)
      override == thriftValue.originatorId # c.self \/ thriftValue.value # value
      newValue == [(IF override
                    THEN [thriftValue EXCEPT !.version = @ + 1, !.ttlVersion = 0,
                                             !.value = value,
                                             !.originatorId = c.self]
                    ELSE thriftValue) EXCEPT !.ttl = keyTtl]
      shouldAdvertise == (~cached /\ ~inStore) \/ override
  IN  [c EXCEPT
         !.dbs[a].selfOriginatedKeyVals =
            [k \in DOMAIN cache \cup {key} |->
               IF k = key THEN [value |-> newValue, keyBackoff |-> "ready"]
               ELSE cache[k]],
         !.dbs[a].keysToAdvertise =
            IF shouldAdvertise THEN @ \cup {key} ELSE @,
         !.dbs[a].advertiseSelfOriginatedKeysThrottled = TRUE]

\* KvStoreDb::persistSelfOriginatedKey.  scheduleTtlUpdates is left out: with
\* this keyTtl the ttl of the key does not change.
persistSelfOriginatedKey(c, a, key, value) ==
  LET db == c.dbs[a]
      cache == db.selfOriginatedKeyVals
      cached == key \in DOMAIN cache
      inStore == key \in DOMAIN db.kvStore
      thriftValue == IF cached THEN cache[key].value
                     ELSE IF inStore THEN db.kvStore[key]
                     ELSE Value(1, c.self, value, keyTtl, 0)
      override == thriftValue.originatorId # c.self \/ thriftValue.value # value
      newValue == [(IF override
                    THEN [thriftValue EXCEPT !.version = @ + 1, !.ttlVersion = 0,
                                             !.value = value,
                                             !.originatorId = c.self]
                    ELSE thriftValue) EXCEPT !.ttl = keyTtl]
      shouldAdvertise == (~cached /\ ~inStore) \/ override
  IN  IF cached /\ cache[key].value.value = value THEN c
      ELSE [c EXCEPT
              !.dbs[a].selfOriginatedKeyVals =
                 [k \in DOMAIN cache \cup {key} |->
                    IF k = key THEN [value |-> newValue, keyBackoff |-> "ready"]
                    ELSE cache[k]],
              !.dbs[a].keysToAdvertise =
                 IF shouldAdvertise THEN @ \cup {key} ELSE @,
              !.dbs[a].advertiseSelfOriginatedKeysThrottled = TRUE]

\* KvStoreDb::advertiseSelfOriginatedKeys.  selfOriginatedKeyVals_.at(key)
\* throws and the CHECK on keyBackoff fails for a key the cache lacks or
\* holds without a backoff.
advertiseSelfOriginatedKeys(c, a, env) ==
  LET db == c.dbs[a]
      cache == db.selfOriginatedKeyVals
      bad == {k \in db.keysToAdvertise :
                k \notin DOMAIN cache \/ cache[k].keyBackoff = "none"}
      tried == {k \in db.keysToAdvertise \ bad : cache[k].keyBackoff = "ready"}
  IN  IF db.keysToAdvertise = {} THEN c
      ELSE IF bad # {} THEN [c EXCEPT !.aborted = TRUE]
      ELSE
      With(setKeyVals(
             [c EXCEPT !.dbs[a].selfOriginatedKeyVals =
                          [k \in DOMAIN cache |->
                             IF k \in tried
                             THEN [cache[k] EXCEPT !.keyBackoff = "waiting"]
                             ELSE cache[k]]],
             a, [keyVals |-> [k \in tried |-> cache[k].value], nodeIds |-> <<>>],
             env), LAMBDA c1 :
        [c1 EXCEPT !.dbs[a].keysToAdvertise = @ \ tried,
                   !.dbs[a].advertiseKeyValsTimer = TRUE])

\* KvStoreDb::setSelfOriginatedKey.  The cache entry is built anew from the
\* value alone, so it has no keyBackoff; version 0 asks for one above the
\* map's.  scheduleTtlUpdates is left out, as in persistSelfOriginatedKey.
setSelfOriginatedKey(c, a, key, value, version, env) ==
  With(IF version # 0 THEN version
       ELSE IF key \in DOMAIN c.dbs[a].kvStore
       THEN c.dbs[a].kvStore[key].version + 1 ELSE 1, LAMBDA v :
  With(Value(v, c.self, value, keyTtl, 0), LAMBDA thriftValue :
    setKeyVals(
      [c EXCEPT !.dbs[a].selfOriginatedKeyVals =
                  [k \in DOMAIN @ \cup {key} |->
                     IF k = key THEN [value |-> thriftValue, keyBackoff |-> "none"]
                     ELSE @[k]]],
      a, [keyVals |-> [k \in {key} |-> thriftValue], nodeIds |-> <<>>], env)))

\* KvStoreDb::eraseSelfOriginatedKey
eraseSelfOriginatedKey(c, a, key) ==
  [c EXCEPT !.dbs[a].selfOriginatedKeyVals = Restrict(@, DOMAIN @ \ {key}),
            !.dbs[a].keysToAdvertise = @ \ {key}]

\* KvStoreDb::unsetSelfOriginatedKey, with eraseSelfOriginatedKey
unsetSelfOriginatedKey(c, a, key, value) ==
  With([c EXCEPT
          !.dbs[a].selfOriginatedKeyVals = Restrict(@, DOMAIN @ \ {key}),
          !.dbs[a].keysToAdvertise = @ \ {key}], LAMBDA c1 :
    IF key \notin DOMAIN c1.dbs[a].kvStore THEN c1
    ELSE [c1 EXCEPT
            !.dbs[a].keysToUnset =
               IF key \in DOMAIN @ THEN @
               ELSE [k \in DOMAIN @ \cup {key} |->
                       IF k = key
                       THEN [c1.dbs[a].kvStore[key] EXCEPT
                               !.originatorId = c1.self, !.version = @ + 1,
                               !.ttlVersion = 0, !.value = value]
                       ELSE @[k]],
            !.dbs[a].unsetSelfOriginatedKeysThrottled = TRUE])

\* unsetPendingSelfOriginatedKeys without the look-up in
\* selfOriginatedKeyVals_
UnsetPendingIgnoresCache(c, a, env) ==
  LET db == c.dbs[a]
  IN  IF db.keysToUnset = EmptyMap THEN c
      ELSE
      With(setKeyVals(c, a, [keyVals |-> db.keysToUnset, nodeIds |-> <<>>],
                      env), LAMBDA c1 :
        [c1 EXCEPT !.dbs[a].keysToUnset = EmptyMap])

\* KvStoreDb::unsetPendingSelfOriginatedKeys
unsetPendingSelfOriginatedKeys(c, a, env) ==
  LET db == c.dbs[a]
  IN  IF db.keysToUnset = EmptyMap THEN c
      ELSE
      With(setKeyVals(c, a,
             [keyVals |-> Restrict(db.keysToUnset,
                                   DOMAIN db.keysToUnset \
                                     DOMAIN db.selfOriginatedKeyVals),
              nodeIds |-> <<>>], env), LAMBDA c1 :
        [c1 EXCEPT !.dbs[a].keysToUnset = EmptyMap])

\* KvStore::semifuture_dumpKvStoreKeys for one area and a request that
\* carries keyValHashes: the publication the server answers with.
dumpKvStoreKeys(db, keyDumpParams, timeNow, pick) ==
  With(dumpDifference(dumpAllWithFilters(db.kvStore).keyVals,
                      keyDumpParams.keyValHashes), LAMBDA thriftPub :
    updatePublicationTtl(db.ttlCountdownQueue, thriftPub, timeNow, pick))

----------------------------------------------------------------------------
(* Committing a handler's context.                                         *)

NoResp == <<>>

InFlight(n, c) ==
  SetToBag({[purpose |-> r.purpose, from |-> n, to |-> r.to, area |-> r.area,
             params |-> r.params, resp |-> NoResp] : r \in c.sent})

\* The client calls on a self-originated key
ClientOps == {"persistSelfOriginatedKey", "unsetSelfOriginatedKey"}

\* In the runs that follow key expiry, alg.written keeps for every key of
\* the map the time of the merge that last wrote its record.  In the runs
\* that follow the self-originated keys, alg.window keeps the client calls
\* made since unsetSelfOriginatedKeysThrottled_ was last armed (the call
\* that armed it included) and alg.last the latest of them.  The runs
\* that follow the parallel-sync cap keep up to MaxSyncRpc requests in
\* flight, the others up to MaxRpc.
Commit(n, ctx, consumed, produced, op, area, rcvd) ==
  \E c \in {ctx} :
  \E rpcs1 \in {((rpcs (-) consumed) (+) produced) (+) InFlight(n, c)} :
      /\ BagCardinality(rpcs1) <=
           IF alg.phase = "cap" THEN MaxSyncRpc ELSE MaxRpc
      /\ rpcs' = rpcs1
      /\ kvStoreDb' = [kvStoreDb EXCEPT ![n] = c.dbs]
      /\ initialSyncSignalSent' =
           [initialSyncSignalSent EXCEPT ![n] = c.initialSyncSignalSent]
      /\ numKvStoreSynced' = [numKvStoreSynced EXCEPT ![n] = c.numKvStoreSynced]
      /\ cmdKeySet' = [cmdKeySet EXCEPT ![n] = c.cmdKeySet]
      /\ aborted' = [aborted EXCEPT ![n] = c.aborted]
      /\ out' = [op |-> op, node |-> n, area |-> area, rcvd |-> rcvd,
                 sent |-> c.sent, pushed |-> c.pushed,
                 syncEvents |-> c.syncEvents, applied |-> c.applied,
                 peerAdds |-> c.peerAdds, error |-> c.error]
      /\ alg' = IF alg.phase = "ttl"
                THEN [alg EXCEPT !.written =
                        [k \in DOMAIN c.dbs[area].kvStore |->
                           IF /\ k \in DOMAIN kvStoreDb[n][area].kvStore
                              /\ kvStoreDb[n][area].kvStore[k] =
                                   c.dbs[area].kvStore[k]
                           THEN @[k] ELSE now]]
                ELSE IF alg.phase = "self" /\ op \in ClientOps
                THEN IF ~c.dbs[area].unsetSelfOriginatedKeysThrottled THEN alg
                     ELSE IF ~kvStoreDb[n][area].unsetSelfOriginatedKeysThrottled
                     THEN [alg EXCEPT !.window = {op}, !.last = op]
                     ELSE [alg EXCEPT !.window = @ \cup {op}, !.last = op]
                ELSE alg
      /\ UNCHANGED now

\* What `out` keeps of a handler's input: who it came from, the node path
\* it carried and the keys it named
Received(senderId, pub) ==
  [senderId |-> senderId, nodeIds |-> pub.nodeIds, keys |-> DOMAIN pub.keyVals]

NoneReceived == Received(NoSender, EmptyPublication)

NoOut ==
  [op |-> "none", node |-> "A", area |-> "1", rcvd |-> NoneReceived,
   sent |-> {}, pushed |-> <<>>, syncEvents |-> {}, applied |-> {},
   peerAdds |-> {}, error |-> NoError]

NoAlg == [phase |-> "none"]

Running(n) == DOMAIN kvStoreDb[n] # {} /\ ~aborted[n]

\* The iteration orders of an unordered_map over the keys S
Orders(S) ==
  {o \in [1..Cardinality(S) -> S] : \A i, j \in DOMAIN o : i # j => o[i] # o[j]}

Env(ub, pick, connOk, order) ==
  [ub |-> ub, pick |-> pick, connOk |-> connOk, order |-> order]

\* Peers of area a at node n whose next connection attempt is still open
Unconnected(n, a) ==
  {p \in DOMAIN kvStoreDb[n][a].thriftPeers :
     ~kvStoreDb[n][a].thriftPeers[p].client}

----------------------------------------------------------------------------
(* Actions: one per handler or callback.                                   *)

Modelled(n) == DOMAIN kvStoreDb[n] # {}

\* What reading kvStore.end() can do, where the merge would read it
UbChoices(n, a, keyVals) ==
  IF \E k \in DOMAIN keyVals :
        /\ k \notin DOMAIN kvStoreDb[n][a].kvStore
        /\ keyVals[k].value # NoValue /\ keyVals[k].version = 0
  THEN UbOutcomes ELSE {"skip"}

\* Which queue entry of a key std::find_if meets first matters only when
\* the heap holds more than one entry for some key
PickOptions(n, a) ==
  IF \E e1, e2 \in kvStoreDb[n][a].ttlCountdownQueue : e1 # e2 /\ e1.key = e2.key
  THEN PickChoices ELSE {"earliest"}

AreaPeerEvent(peersToAdd, peersToDel) ==
  [peersToAdd |-> peersToAdd, peersToDel |-> peersToDel]

AddedPeers(event) == UNION {DOMAIN event[a].peersToAdd : a \in DOMAIN event}

\* KvStore fiber task on peerUpdatesQueue: processPeerUpdates(event)
PeerUpdates(n, event) ==
  /\ Running(n)
  /\ \E connOk \in SUBSET AddedPeers(event) :
       Commit(n, processPeerUpdates(Ctx(n), event,
                                    Env("skip", "earliest", connOk, <<>>)),
              EmptyBag, EmptyBag, "processPeerUpdates", "", NoneReceived)

\* ctrl API: addUpdateKvStorePeers
AddPeersRpc(n, a, peersToAdd) ==
  /\ Running(n)
  /\ \E connOk \in SUBSET DOMAIN peersToAdd :
       Commit(n, semifuture_addUpdateKvStorePeers(
                   Ctx(n), a, peersToAdd, Env("skip", "earliest", connOk, <<>>)),
              EmptyBag, EmptyBag, "addUpdateKvStorePeers", a, NoneReceived)

\* ctrl API: deleteKvStorePeers
DelPeersRpc(n, a, peersToDel) ==
  /\ Running(n)
  /\ Commit(n, semifuture_deleteKvStorePeers(Ctx(n), a, peersToDel),
            EmptyBag, EmptyBag, "deleteKvStorePeers", a, NoneReceived)

\* thriftSyncTimer_ fires
SyncTimerFires(n, a) ==
  /\ Running(n)
  /\ kvStoreDb[n][a].thriftSyncTimer
  /\ \E order \in Orders(DOMAIN kvStoreDb[n][a].thriftPeers),
        connOk \in SUBSET Unconnected(n, a) :
       Commit(n, requestThriftPeerSync(Ctx(n), a,
                                       Env("skip", "earliest", connOk, order)),
              EmptyBag, EmptyBag, "requestThriftPeerSync", a, NoneReceived)

\* A peer that runs this store serves the full-sync request
ServeFullSync(r) ==
  /\ r \in BagToSet(rpcs) /\ r.purpose = "FULL_SYNC" /\ r.resp = NoResp
  /\ Running(r.to) /\ r.area \in DOMAIN kvStoreDb[r.to]
  /\ \E pick \in PickOptions(r.to, r.area) :
       Commit(r.to, Ctx(r.to), SetToBag({r}),
              SetToBag({[r EXCEPT !.resp =
                 <<dumpKvStoreKeys(kvStoreDb[r.to][r.area], r.params, now, pick)>>]}),
              "dumpKvStoreKeys", r.area, Received(r.from, EmptyPublication))

\* thenValue of the full-sync request: the response of a served request
FullSyncSuccess(r) ==
  /\ r \in BagToSet(rpcs) /\ r.purpose = "FULL_SYNC" /\ r.resp # NoResp
  /\ Running(r.from)
  /\ \E ub \in UbChoices(r.from, r.area, r.resp[1].keyVals),
        pick \in PickOptions(r.from, r.area) :
       Commit(r.from,
              processThriftSuccess(Ctx(r.from), r.area, r.to, r.resp[1],
                                   Env(ub, pick, {}, <<>>)),
              SetToBag({r}), EmptyBag, "processThriftSuccess", r.area,
              Received(r.to, r.resp[1]))

\* thenValue of the full-sync request, answered by a peer outside the model
EnvFullSyncSuccess(r, pub) ==
  /\ r \in BagToSet(rpcs) /\ r.purpose = "FULL_SYNC" /\ r.resp = NoResp
  /\ Running(r.from) /\ ~Modelled(r.to)
  /\ \E ub \in UbChoices(r.from, r.area, pub.keyVals),
        pick \in PickOptions(r.from, r.area) :
       Commit(r.from,
              processThriftSuccess(Ctx(r.from), r.area, r.to, pub,
                                   Env(ub, pick, {}, <<>>)),
              SetToBag({r}), EmptyBag, "processThriftSuccess", r.area,
              Received(r.to, pub))

\* thenError of any request
ThriftFailure(r) ==
  /\ r \in BagToSet(rpcs)
  /\ Running(r.from)
  /\ r.to \in DOMAIN kvStoreDb[r.from][r.area].thriftPeers =>
       kvStoreDb[r.from][r.area].thriftPeers[r.to].numThriftApiErrors < MaxErrors
  /\ Commit(r.from, processThriftFailure(Ctx(r.from), r.area, r.to),
            SetToBag({r}), EmptyBag, "processThriftFailure", r.area,
            Received(r.to, EmptyPublication))

\* A flood or a finalize-sync arrives at a peer that runs this store
DeliverSetKeyVals(r) ==
  /\ r \in BagToSet(rpcs) /\ r.purpose \in {"FLOOD_PUB", "FINALIZE_SYNC"}
  /\ Running(r.to)
  /\ \E ub \in UbChoices(r.to, r.area, r.params.keyVals),
        pick \in PickOptions(r.to, r.area) :
       Commit(r.to, setKeyVals(Ctx(r.to), r.area, r.params,
                               Env(ub, pick, {}, <<>>)),
              SetToBag({r}), EmptyBag, "setKeyVals", r.area,
              Received(NoSender, r.params))

\* thenValue of a flood or a finalize-sync sent to a peer outside the model
EnvAck(r) ==
  /\ r \in BagToSet(rpcs) /\ r.purpose \in {"FLOOD_PUB", "FINALIZE_SYNC"}
  /\ Running(r.from) /\ ~Modelled(r.to)
  /\ Commit(r.from, Ctx(r.from), SetToBag({r}), EmptyBag, "ack", r.area,
            Received(r.to, EmptyPublication))

\* setKvStoreKeyVals called by a client or by a peer outside the model
SetKey(n, a, setParams) ==
  /\ Running(n) /\ cmdKeySet[n] < MaxKeySet
  /\ \E ub \in UbChoices(n, a, setParams.keyVals), pick \in PickOptions(n, a) :
       Commit(n, setKeyVals(Ctx(n), a, setParams, Env(ub, pick, {}, <<>>)),
              EmptyBag, EmptyBag, "setKeyVals", a, Received(NoSender, setParams))

\* ttlCountdownTimer_ fires
TtlTimerFires(n, a) ==
  /\ Running(n)
  /\ \E d \in kvStoreDb[n][a].ttlCountdownTimer : d <= now
  /\ Commit(n, cleanupTtlCountdownQueue(Ctx(n), a),
            EmptyBag, EmptyBag, "cleanupTtlCountdownQueue", a, NoneReceived)

\* A client persists a key: KvStore::processKeyValueRequest
Persist(n, a, key, value) ==
  /\ Running(n) /\ cmdKeySet[n] < MaxKeySet
  /\ key \in DOMAIN kvStoreDb[n][a].selfOriginatedKeyVals =>
       kvStoreDb[n][a].selfOriginatedKeyVals[key].value.version <= MaxVersion
  /\ key \in DOMAIN kvStoreDb[n][a].kvStore =>
       kvStoreDb[n][a].kvStore[key].version <= MaxVersion
  /\ Commit(n, persistSelfOriginatedKey(Ctx(n), a, key, value),
            EmptyBag, EmptyBag, "persistSelfOriginatedKey", a, NoneReceived)

\* A client unsets a key: KvStore::processKeyValueRequest
Unset(n, a, key, value) ==
  /\ Running(n) /\ cmdKeySet[n] < MaxKeySet
  /\ key \in DOMAIN kvStoreDb[n][a].kvStore =>
       kvStoreDb[n][a].kvStore[key].version <= MaxVersion
  /\ Commit(n, unsetSelfOriginatedKey(Ctx(n), a, key, value),
            EmptyBag, EmptyBag, "unsetSelfOriginatedKey", a, NoneReceived)

\* The callback of advertiseSelfOriginatedKeysThrottled_
AdvertiseThrottleFires(n, a) ==
  /\ Running(n) /\ kvStoreDb[n][a].advertiseSelfOriginatedKeysThrottled
  /\ \E pick \in PickOptions(n, a) :
       Commit(n, advertiseSelfOriginatedKeys(
                   [Ctx(n) EXCEPT
                      !.dbs[a].advertiseSelfOriginatedKeysThrottled = FALSE],
                   a, Env("skip", pick, {}, <<>>)),
              EmptyBag, EmptyBag, "advertiseSelfOriginatedKeys", a, NoneReceived)

\* advertiseKeyValsTimer_ fires: the backoff of the keys it was armed for
\* has elapsed; the callback advertises and then clears those backoffs.
AdvertiseKeyValsTimerFires(n, a) ==
  /\ Running(n) /\ kvStoreDb[n][a].advertiseKeyValsTimer
  /\ \E pick \in PickOptions(n, a) :
       Commit(n, advertiseSelfOriginatedKeys(
                   [Ctx(n) EXCEPT
                      !.dbs[a].advertiseKeyValsTimer = FALSE,
                      !.dbs[a].selfOriginatedKeyVals =
                         [k \in DOMAIN @ |->
                            IF @[k].keyBackoff = "waiting"
                            THEN [@[k] EXCEPT !.keyBackoff = "ready"]
                            ELSE @[k]]],
                   a, Env("skip", pick, {}, <<>>)),
              EmptyBag, EmptyBag, "advertiseKeyValsTimer", a, NoneReceived)

\* The callback of unsetSelfOriginatedKeysThrottled_
UnsetThrottleFires(n, a) ==
  /\ Running(n) /\ kvStoreDb[n][a].unsetSelfOriginatedKeysThrottled
  /\ \E pick \in PickOptions(n, a) :
       Commit(n, unsetPendingSelfOriginatedKeys(
                   [Ctx(n) EXCEPT
                      !.dbs[a].unsetSelfOriginatedKeysThrottled = FALSE],
                   a, Env("skip", pick, {}, <<>>)),
              EmptyBag, EmptyBag, "unsetPendingSelfOriginatedKeys", a,
              NoneReceived)

\* pendingPublicationTimer_ fires
PendingPublicationTimerFires(n, a) ==
  /\ Running(n)
  /\ kvStoreDb[n][a].pendingPublicationTimer
  /\ \E pick \in PickOptions(n, a) :
       Commit(n, pendingPublicationTimerFires(Ctx(n), a, pick),
              EmptyBag, EmptyBag, "pendingPublicationTimer", a, NoneReceived)

\* Time refills the token bucket of floodLimiter_, up to its burst size
TokenRefill(n, a) ==
  /\ Running(n)
  /\ kvStoreDb[n][a].floodRate /\ kvStoreDb[n][a].floodTokens < FloodBurst
  /\ kvStoreDb' = [kvStoreDb EXCEPT ![n][a].floodTokens = @ + 1]
  /\ UNCHANGED <<initialSyncSignalSent, aborted, rpcs, now, out,
                 numKvStoreSynced, cmdKeySet, alg>>

\* The steady clock advances; a due timer fires first
Tick ==
  /\ now < MaxTime
  /\ \A n \in NodeIds : \A a \in DOMAIN kvStoreDb[n] :
       \A d \in kvStoreDb[n][a].ttlCountdownTimer : aborted[n] \/ d > now
  /\ now' = now + 1
  /\ UNCHANGED <<kvStoreDb, initialSyncSignalSent, aborted, rpcs, out,
                 numKvStoreSynced, cmdKeySet, alg>>

\* The backoff period of a peer ends: ExponentialBackoff::canTryNow
BackoffElapsed(n, a, p) ==
  /\ Running(n)
  /\ p \in DOMAIN kvStoreDb[n][a].thriftPeers
  /\ ~kvStoreDb[n][a].thriftPeers[p].canTryNow
  /\ kvStoreDb' = [kvStoreDb EXCEPT ![n][a].thriftPeers[p].canTryNow = TRUE]
  /\ UNCHANGED <<initialSyncSignalSent, aborted, rpcs, now, out,
                 numKvStoreSynced, cmdKeySet, alg>>

----------------------------------------------------------------------------
(* SpecPeers: one store, node A, configured with two areas; its peers B    *)
(* and C are outside the model and answer as any peer could.  No key is    *)
(* ever set, so the steps are those of peer management, full sync and the  *)
(* initialization barrier.                                                 *)

Self == "A"
PeerNames == {"B", "C"}

StoreOf(n, areas) ==
  [m \in NodeIds |-> IF m = n THEN [a \in areas |-> KvStoreDb] ELSE EmptyMap]

InitStore(areas) ==
  /\ kvStoreDb = StoreOf(Self, areas)
  /\ initialSyncSignalSent = [n \in NodeIds |-> FALSE]
  /\ aborted = [n \in NodeIds |-> FALSE]
  /\ numKvStoreSynced = [n \in NodeIds |-> 0]
  /\ cmdKeySet = [n \in NodeIds |-> 0]
  /\ rpcs = EmptyBag
  /\ now = 0
  /\ out = NoOut
  /\ alg = NoAlg

InitPeers == InitStore(AreaIds)

PeerAddr == "fe80::1"

\* PeerEvent: a map from area to the peers to add and to delete there.
\* LinkMonitor reports one adjacency change at a time; its first event
\* lists the peers of every area, and may be empty.
AreaPeerEvents(peers) ==
  {AreaPeerEvent([p \in add |-> PeerAddr], {}) :
     add \in (SUBSET peers) \ {{}}}
  \cup {AreaPeerEvent(EmptyMap, {p}) : p \in peers}
  \cup {AreaPeerEvent([q \in {p} |-> PeerAddr], PeerNames \ {p}) : p \in peers}

\* Area "1" has the neighbours B and C; area "2" is configured but has none
AreaPeers(a) == IF a = "1" THEN PeerNames ELSE {}

PeerEvents ==
  {EmptyMap}
  \cup UNION {[{a} -> AreaPeerEvents(AreaPeers(a))] : a \in AreaIds}
  \cup {[a \in AreaIds |-> AreaPeerEvent([p \in add \cap AreaPeers(a) |-> PeerAddr], {})]
          : add \in SUBSET PeerNames}

NextPeers ==
  \/ \E event \in PeerEvents : PeerUpdates(Self, event)
  \/ \E a \in AreaIds : \E p \in AreaPeers(a) :
       AddPeersRpc(Self, a, [q \in {p} |-> PeerAddr])
  \/ \E a \in AreaIds : \E p \in AreaPeers(a) : DelPeersRpc(Self, a, {p})
  \/ \E a \in AreaIds : SyncTimerFires(Self, a)
  \/ \E r \in BagToSet(rpcs) : EnvFullSyncSuccess(r, EmptyPublication)
  \/ \E r \in BagToSet(rpcs) : ThriftFailure(r)
  \/ \E a \in AreaIds, p \in PeerNames : BackoffElapsed(Self, a, p)

SpecPeers == InitPeers /\ [][NextPeers]_vars


----------------------------------------------------------------------------
(* Spec: one store, node A, configured with area "1", past its first peer  *)
(* event and its first round of full sync: the neighbour B has answered    *)
(* and is INITIALIZED, the neighbour C has been asked and is SYNCING.      *)
(* Clients and nodes outside the model set keys that never expire,         *)
(* publications arrive with any node path, floods are acknowledged or      *)
(* fail, the peers answer full-sync requests as any peer could, and a      *)
(* peer can be deleted while requests to it are in flight.                 *)

Area == "1"

Originators == {"B", "C"}

ValueRecords ==
  {Value(v, o, p, kTtlInfinity, tv) :
     v \in 1..MaxVersion, o \in Originators, p \in Payloads,
     tv \in 0..MaxTtlVersion}

\* ttl refreshes: records without a value
TtlRecords ==
  {Value(v, o, NoValue, kTtlInfinity, tv) :
     v \in 1..MaxVersion, o \in Originators, tv \in 0..MaxTtlVersion}

Records == ValueRecords \cup TtlRecords

NodePaths == {<<>>, <<"A", "B">>}

KeySetParams ==
  {[keyVals |-> [k \in {"k1"} |-> r], nodeIds |-> np] :
     r \in Records, np \in NodePaths}

SyncResponses ==
  {Publication(kv, {}, <<>>, tbu) :
     kv \in {EmptyMap, [k \in {"k1"} |-> Value(2, "C", "y", kTtlInfinity, 1)]},
     tbu \in {{}, {"k1"}}}

\* The store as its constructor leaves it
Constructed(n, areas) ==
  [self |-> n, dbs |-> [a \in areas |-> KvStoreDb],
   initialSyncSignalSent |-> FALSE, numKvStoreSynced |-> 0, cmdKeySet |-> 0,
   aborted |-> FALSE, timeNow |-> 0,
   sent |-> {}, pushed |-> <<>>, syncEvents |-> {}, applied |-> {},
   peerAdds |-> {}, error |-> NoError]

\* The first peer event names B and C; the first round of
\* requestThriftPeerSync asks both, and B answers with nothing.
Started ==
  LET env == Env("skip", "earliest", PeerNames, <<"B", "C">>)
      c1 == processPeerUpdates(
              Constructed(Self, {Area}),
              [a \in {Area} |->
                 AreaPeerEvent([p \in PeerNames |-> PeerAddr], {})], env)
      c2 == requestThriftPeerSync(c1, Area, env)
  IN  processThriftSuccess(c2, Area, "B", EmptyPublication, env)

Init ==
  /\ kvStoreDb = [n \in NodeIds |-> IF n = Self THEN Started.dbs ELSE EmptyMap]
  /\ initialSyncSignalSent = [n \in NodeIds |-> FALSE]
  /\ aborted = [n \in NodeIds |-> FALSE]
  /\ numKvStoreSynced = [n \in NodeIds |-> 0]
  /\ cmdKeySet = [n \in NodeIds |-> 0]
  /\ rpcs = InFlight(Self, [Started EXCEPT !.sent = {r \in @ : r.to = "C"}])
  /\ now = 0
  /\ out = NoOut
  /\ alg = NoAlg

Next ==
  \/ \E setParams \in KeySetParams : SetKey(Self, Area, setParams)
  \/ \E r \in BagToSet(rpcs) : EnvAck(r)
  \/ \E r \in BagToSet(rpcs) : ThriftFailure(r)
  \/ SyncTimerFires(Self, Area)
  \/ \E r \in BagToSet(rpcs), pub \in SyncResponses : EnvFullSyncSuccess(r, pub)
  \/ \E p \in PeerNames : DelPeersRpc(Self, Area, {p})

Spec == Init /\ [][Next]_vars

----------------------------------------------------------------------------
(* SpecTtl: the same store, with the clock running.  The keys set carry a  *)
(* finite or an infinite ttl, ttl refreshes arrive, the countdown timer    *)
(* fires and records expire.                                               *)

Ttls == {kTtlInfinity} \cup 1..MaxTtl

ExpiringRecords ==
  {Value(1, "B", p, t, tv) :
     p \in Payloads \cup {NoValue}, t \in Ttls, tv \in 0..MaxTtlVersion}
  \cup {Value(1, "B", "x", MaxTtl + 1, 0)}

TtlKeySetParams ==
  {[keyVals |-> [k \in {"k1"} |-> r], nodeIds |-> <<>>] : r \in ExpiringRecords}

NextTtl ==
  \/ \E setParams \in TtlKeySetParams : SetKey(Self, Area, setParams)
  \/ TtlTimerFires(Self, Area)
  \/ Tick
  \/ \E r \in BagToSet(rpcs) : EnvAck(r)
  \/ \E r \in BagToSet(rpcs) : ThriftFailure(r)
  \/ \E r \in BagToSet(rpcs) : EnvFullSyncSuccess(r, EmptyPublication)

InitTtl ==
  /\ kvStoreDb = [n \in NodeIds |-> IF n = Self THEN Started.dbs ELSE EmptyMap]
  /\ initialSyncSignalSent = [n \in NodeIds |-> FALSE]
  /\ aborted = [n \in NodeIds |-> FALSE]
  /\ numKvStoreSynced = [n \in NodeIds |-> 0]
  /\ cmdKeySet = [n \in NodeIds |-> 0]
  /\ rpcs = InFlight(Self, [Started EXCEPT !.sent = {r \in @ : r.to = "C"}])
  /\ now = 0
  /\ out = NoOut
  /\ alg = [phase |-> "ttl", written |-> EmptyMap]

SpecTtl == InitTtl /\ [][NextTtl]_vars

----------------------------------------------------------------------------
(* SpecFlood: the same store with a flood rate configured.  The peer B     *)
(* floods the records it originates, clients set records the store         *)
(* originates, for two keys; the records of the first expire or not.  The  *)
(* token bucket runs empty and refills, the buffered keys are flooded when *)
(* the pending-publication timer fires.                                    *)

FloodKeySetParams ==
  {[keyVals |-> [k \in {"k1"} |-> Value(v, o, "x", t, 0)],
    nodeIds |-> IF o = Self THEN <<>> ELSE <<o>>] :
     v \in 1..MaxVersion, o \in {Self, "B"}, t \in {kTtlInfinity, MaxTtl}}
  \cup {[keyVals |-> [k \in {"k2"} |-> Value(1, Self, "x", kTtlInfinity, 0)],
         nodeIds |-> <<>>]}

InitFlood ==
  /\ kvStoreDb = [n \in NodeIds |->
                    IF n = Self
                    THEN [a \in {Area} |->
                            [Started.dbs[a] EXCEPT
                               !.floodRate = TRUE, !.floodTokens = FloodBurst]]
                    ELSE EmptyMap]
  /\ initialSyncSignalSent = [n \in NodeIds |-> FALSE]
  /\ aborted = [n \in NodeIds |-> FALSE]
  /\ numKvStoreSynced = [n \in NodeIds |-> 0]
  /\ cmdKeySet = [n \in NodeIds |-> 0]
  /\ rpcs = InFlight(Self, [Started EXCEPT !.sent = {r \in @ : r.to = "C"}])
  /\ now = 0
  /\ out = NoOut
  /\ alg = NoAlg

NextFlood ==
  \/ \E setParams \in FloodKeySetParams : SetKey(Self, Area, setParams)
  \/ PendingPublicationTimerFires(Self, Area)
  \/ TokenRefill(Self, Area)
  \/ TtlTimerFires(Self, Area)
  \/ Tick
  \/ \E r \in BagToSet(rpcs) : EnvAck(r)
  \/ \E r \in BagToSet(rpcs) : EnvFullSyncSuccess(r, EmptyPublication)

SpecFlood == InitFlood /\ [][NextFlood]_vars

----------------------------------------------------------------------------
(* SpecSelf: a store without peers whose clients persist and unset the key *)
(* k1, while records for k1 that B originated are set, with an infinite    *)
(* ttl or with a ttl of one decrement.  The throttled callbacks and the    *)
(* timers fire in any order; the clock runs.                               *)

\* The payload an unset leaves behind
Tombstone == "t"

SelfKeySetParams ==
  {[keyVals |-> [k \in {"k1"} |-> Value(v, "B", "x", t, 0)],
    nodeIds |-> <<"B">>] : v \in 1..MaxVersion, t \in {kTtlInfinity, ttlDecr}}

InitSelf ==
  /\ kvStoreDb = [n \in NodeIds |->
                    IF n = Self THEN Constructed(Self, {Area}).dbs ELSE EmptyMap]
  /\ initialSyncSignalSent = [n \in NodeIds |-> FALSE]
  /\ aborted = [n \in NodeIds |-> FALSE]
  /\ numKvStoreSynced = [n \in NodeIds |-> 0]
  /\ cmdKeySet = [n \in NodeIds |-> 0]
  /\ rpcs = EmptyBag
  /\ now = 0
  /\ out = NoOut
  /\ alg = [phase |-> "self", window |-> {}, last |-> "none"]

NextSelf ==
  \/ \E value \in Payloads : Persist(Self, Area, "k1", value)
  \/ Unset(Self, Area, "k1", Tombstone)
  \/ AdvertiseThrottleFires(Self, Area)
  \/ AdvertiseKeyValsTimerFires(Self, Area)
  \/ UnsetThrottleFires(Self, Area)
  \/ \E setParams \in SelfKeySetParams : SetKey(Self, Area, setParams)
  \/ TtlTimerFires(Self, Area)
  \/ Tick

SpecSelf == InitSelf /\ [][NextSelf]_vars

\* The event base runs every armed throttle and timer callback of the
\* self-originated keys and the ttl countdown timer; the clock advances.
\* No fairness for the clients' calls.
SelfFairness ==
  /\ WF_vars(AdvertiseThrottleFires(Self, Area))
  /\ WF_vars(AdvertiseKeyValsTimerFires(Self, Area))
  /\ WF_vars(UnsetThrottleFires(Self, Area))
  /\ WF_vars(TtlTimerFires(Self, Area))
  /\ WF_vars(Tick)

SpecSelfLive == InitSelf /\ [][NextSelf]_vars /\ SelfFairness

----------------------------------------------------------------------------
(* Requests that name an area, on a node configured with one area ("0" or  *)
(* "1") or with two.                                                       *)

AreaConfigs == {{"0"}, {"1"}, {"1", "2"}}

RequestAreas == {"0", "1", "2"}

AreaKeySetParams ==
  {[keyVals |-> [k \in {"k1"} |-> Value(v, "B", p, kTtlInfinity, 0)],
    nodeIds |-> <<>>] : v \in 1..MaxVersion, p \in {"x"}}

\* ctrl API: setKvStoreKeyVals for any area name.  The records have a
\* version of at least 1 and no finite ttl, so the handler has no choice
\* to make.
SetKeyValsRpc(n, area, setParams) ==
  /\ Running(n) /\ cmdKeySet[n] < MaxKeySet
  /\ Commit(n, setKeyVals(Ctx(n), area, setParams,
                          Env("skip", "earliest", {}, <<>>)),
            EmptyBag, EmptyBag, "setKvStoreKeyVals", area,
            Received(NoSender, setParams))

InitArea == \E areas \in AreaConfigs : InitStore(areas)

NextArea ==
  \/ \E a \in RequestAreas, setParams \in AreaKeySetParams :
       SetKeyValsRpc(Self, a, setParams)
  \/ \E a \in RequestAreas : AddPeersRpc(Self, a, [q \in {"B"} |-> PeerAddr])
  \/ \E a \in RequestAreas : DelPeersRpc(Self, a, {"B"})

SpecArea == InitArea /\ [][NextArea]_vars

----------------------------------------------------------------------------
(* One store with the three neighbours B, C and D in area "1": the rounds  *)
(* of requestThriftPeerSync against parallelSyncLimitOverThrift_.          *)

CapPeers == {"B", "C", "D"}

\* The first peer event names the three neighbours
CapStarted ==
  processPeerUpdates(
    Constructed(Self, {Area}),
    [a \in {Area} |-> AreaPeerEvent([p \in CapPeers |-> PeerAddr], {})],
    Env("skip", "earliest", CapPeers, <<>>))

InitCap ==
  /\ kvStoreDb = [n \in NodeIds |->
                    IF n = Self THEN [a \in {Area} |-> CapStarted.dbs[a]]
                    ELSE EmptyMap]
  /\ initialSyncSignalSent = [n \in NodeIds |-> FALSE]
  /\ aborted = [n \in NodeIds |-> FALSE]
  /\ numKvStoreSynced = [n \in NodeIds |-> 0]
  /\ cmdKeySet = [n \in NodeIds |-> 0]
  /\ rpcs = EmptyBag
  /\ now = 0
  /\ out = NoOut
  /\ alg = [phase |-> "cap"]

NextCap ==
  \/ SyncTimerFires(Self, Area)
  \/ \E r \in BagToSet(rpcs) : EnvFullSyncSuccess(r, EmptyPublication)
  \/ \E r \in BagToSet(rpcs) : ThriftFailure(r)
  \/ \E p \in CapPeers : BackoffElapsed(Self, Area, p)

SpecCap == InitCap /\ [][NextCap]_vars

----------------------------------------------------------------------------
(* Properties of the merge (Spec, SpecTtl).                                *)

kvStoreOf(n, a) == kvStoreDb[n][a].kvStore

peersOf(n, a) == kvStoreDb[n][a].thriftPeers

\* r1 < r2 in the (version, originator id, payload) order
TupleLess(r1, r2) ==
  \/ r1.version < r2.version
  \/ /\ r1.version = r2.version
     /\ \/ StrCompare(r1.originatorId, r2.originatorId) < 0
        \/ /\ r1.originatorId = r2.originatorId
           /\ StrCompare(r1.value, r2.value) < 0

\* A step in which mergePublication ran: setKeyVals or processThriftSuccess
MergeOps == {"setKeyVals", "processThriftSuccess"}

\* C2: a merge of an incoming publication never leaves, for any key the
\* map held, a record strictly less in the (version, originator id,
\* payload) order than the record held before, and never loses the key.
NeverReplacedByLess ==
  [][out'.op \in MergeOps =>
       \A k \in DOMAIN kvStoreOf(Self, Area) :
          /\ k \in DOMAIN kvStoreOf(Self, Area)'
          /\ ~TupleLess(kvStoreOf(Self, Area)'[k], kvStoreOf(Self, Area)[k])]_vars

\* A publication for a key the map holds at the top of the order was merged
\* and nothing of it was accepted.
LesserRecordRefused ==
  /\ out.op = "setKeyVals" /\ out.rcvd.keys = {"k1"} /\ out.rcvd.nodeIds = <<>>
  /\ out.pushed = <<>>
  /\ cmdKeySet[Self] >= 2
  /\ "k1" \in DOMAIN kvStoreOf(Self, Area)
  /\ kvStoreOf(Self, Area)["k1"].version = MaxVersion
  /\ kvStoreOf(Self, Area)["k1"].originatorId = "C"
  /\ kvStoreOf(Self, Area)["k1"].value = "y"

\* C5: a publication whose node path contains the local node id is dropped
\* entirely: the map keeps every record and its key count, nothing is sent
\* to a peer and nothing is pushed to the internal subscribers.
LoopedPublicationDropped ==
  [][(cmdKeySet'[Self] # cmdKeySet[Self] /\ Self \in SeqRange(out'.rcvd.nodeIds)) =>
       /\ kvStoreOf(Self, Area)' = kvStoreOf(Self, Area)
       /\ Cardinality(DOMAIN kvStoreOf(Self, Area)') =
            Cardinality(DOMAIN kvStoreOf(Self, Area))
       /\ out'.sent = {}
       /\ out'.pushed = <<>>]_vars

\* A looped publication for a key the map lacks arrived while the peer B
\* was INITIALIZED, ready to be flooded to.
LoopedPublicationSeen ==
  /\ out.op = "setKeyVals" /\ Self \in SeqRange(out.rcvd.nodeIds)
  /\ out.rcvd.keys = {"k1"}
  /\ kvStoreOf(Self, Area) = EmptyMap
  /\ kvStoreDb[Self][Area].thriftPeers["B"].state = INITIALIZED

\* C4 as stated: for a fixed (key, version, originator id) the stored
\* ttl_version never decreases.
TtlVersionNeverDecreases ==
  [][\A k \in DOMAIN kvStoreOf(Self, Area) \cap DOMAIN kvStoreOf(Self, Area)' :
       (/\ kvStoreOf(Self, Area)'[k].version = kvStoreOf(Self, Area)[k].version
        /\ kvStoreOf(Self, Area)'[k].originatorId =
             kvStoreOf(Self, Area)[k].originatorId)
       => kvStoreOf(Self, Area)'[k].ttlVersion >=
            kvStoreOf(Self, Area)[k].ttlVersion]_vars

\* C4, amended: for a fixed (key, version, originator id, payload), while
\* the key stays in the map, the stored ttl_version never decreases.
TtlVersionNeverDecreasesForPayload ==
  [][\A k \in DOMAIN kvStoreOf(Self, Area) \cap DOMAIN kvStoreOf(Self, Area)' :
       (/\ kvStoreOf(Self, Area)'[k].version = kvStoreOf(Self, Area)[k].version
        /\ kvStoreOf(Self, Area)'[k].originatorId =
             kvStoreOf(Self, Area)[k].originatorId
        /\ kvStoreOf(Self, Area)'[k].value = kvStoreOf(Self, Area)[k].value)
       => kvStoreOf(Self, Area)'[k].ttlVersion >=
            kvStoreOf(Self, Area)[k].ttlVersion]_vars

\* A ttl refresh was accepted: the map holds the key at the highest
\* ttl_version and the delta pushed to the subscribers carries no value.
TtlRefreshAccepted ==
  /\ out.op = "setKeyVals"
  /\ Len(out.pushed) = 1
  /\ out.pushed[1].type = "Publication"
  /\ "k1" \in DOMAIN out.pushed[1].pub.keyVals
  /\ out.pushed[1].pub.keyVals["k1"].value = NoValue
  /\ "k1" \in DOMAIN kvStoreOf(Self, Area)
  /\ kvStoreOf(Self, Area)["k1"].ttlVersion = MaxTtlVersion

----------------------------------------------------------------------------
(* Properties of callbacks that outlive the request's peer (Spec).         *)

\* C11: the full-sync response of a peer deleted while the request was in
\* flight changes no state: the map, the peer records and the parallel-sync
\* cap stay as they were, no sync event is emitted, nothing is sent or
\* pushed, and the process does not abort.
DeletedPeerResponseIgnored ==
  [][(/\ rpcs' # rpcs /\ out'.op = "processThriftSuccess"
      /\ out'.rcvd.senderId \notin DOMAIN peersOf(Self, Area)) =>
       /\ kvStoreDb' = kvStoreDb
       /\ initialSyncSignalSent' = initialSyncSignalSent
       /\ out'.syncEvents = {} /\ out'.sent = {} /\ out'.pushed = <<>>
       /\ out'.applied = {}
       /\ ~aborted'[Self]]_vars

\* The response of the deleted peer C arrived carrying a record for a key
\* the map lacks, and the map still lacks it.
DeletedPeerResponseSeen ==
  /\ out.op = "processThriftSuccess" /\ out.rcvd.senderId = "C"
  /\ out.rcvd.keys = {"k1"}
  /\ "C" \notin DOMAIN peersOf(Self, Area)
  /\ kvStoreOf(Self, Area) = EmptyMap

\* C12: a completion callback, success or failure, of a request issued
\* before its peer was reset to IDLE or deleted and added again is dropped:
\* the peer's state, backoff, error count and client handle stay as they
\* were and no key is merged.  A request is only ever issued to a peer that
\* is SYNCING or INITIALIZED, so a callback that finds its peer IDLE belongs
\* to a request from before the reset.
StaleCallbackDropped ==
  [][\A a \in DOMAIN kvStoreDb[Self] : \A p \in DOMAIN peersOf(Self, a) :
       (/\ rpcs' # rpcs
        /\ out'.op \in {"processThriftSuccess", "processThriftFailure"}
        /\ out'.area = a /\ out'.rcvd.senderId = p
        /\ peersOf(Self, a)[p].state = IDLE) =>
          /\ peersOf(Self, a)' = peersOf(Self, a)
          /\ kvStoreOf(Self, a)' = kvStoreOf(Self, a)]_vars

\* C13 as stated: peer_add for a peer that exists with the same address
\* and a live client leaves that peer's state unchanged.
ReAddKeepsState ==
  [][\A t \in out'.peerAdds :
       (/\ out'.op \in {"processPeerUpdates", "addUpdateKvStorePeers"}
        /\ t[2] \in DOMAIN peersOf(Self, t[1])
        /\ t[2] \in DOMAIN peersOf(Self, t[1])'
        /\ peersOf(Self, t[1])[t[2]].client
        /\ peersOf(Self, t[1])'[t[2]].peerAddr =
             peersOf(Self, t[1])[t[2]].peerAddr) =>
          peersOf(Self, t[1])'[t[2]].state =
            peersOf(Self, t[1])[t[2]].state]_vars

\* C13, amended: peer_add leaves every peer it names in state IDLE, a peer
\* that existed just as a new one, and schedules the sync timer; the peers
\* it does not name keep their state.
AddedPeerResetToIdle ==
  [][out'.op \in {"processPeerUpdates", "addUpdateKvStorePeers"} =>
       \A a \in DOMAIN kvStoreDb[Self] :
          /\ \A t \in out'.peerAdds :
               (t[1] = a /\ t[2] \in DOMAIN peersOf(Self, a)') =>
                  /\ peersOf(Self, a)'[t[2]].state = IDLE
                  /\ kvStoreDb[Self][a].thriftSyncTimer'
          /\ \A p \in DOMAIN peersOf(Self, a) \cap DOMAIN peersOf(Self, a)' :
               (\A t \in out'.peerAdds : ~(t[1] = a /\ t[2] = p)) =>
                  peersOf(Self, a)'[p].state = peersOf(Self, a)[p].state]_vars

\* peer_add named the peer B, which was INITIALIZED at the same address
\* with a live client, and B is now IDLE with a new client.
InitializedPeerReAdded ==
  /\ out.op \in {"processPeerUpdates", "addUpdateKvStorePeers"}
  /\ <<"1", "B", INITIALIZED>> \in out.peerAdds
  /\ "B" \in DOMAIN peersOf(Self, "1")
  /\ peersOf(Self, "1")["B"].state = IDLE
  /\ peersOf(Self, "1")["B"].client

----------------------------------------------------------------------------
(* Properties of the initialization barrier and of the peer state machine  *)
(* (SpecPeers).                                                            *)

AllAreasCompleted(n) ==
  \A a \in DOMAIN kvStoreDb[n] : kvStoreDb[n][a].initialSyncCompleted

\* Every peer of the area is INITIALIZED or has recorded a thrift API error
PeersDone(n, a) ==
  \A p \in DOMAIN peersOf(n, a) :
     \/ peersOf(n, a)[p].state = INITIALIZED
     \/ peersOf(n, a)[p].numThriftApiErrors > 0

\* C6: KVSTORE_SYNCED is published at most once.
SyncedAtMostOnce == numKvStoreSynced[Self] <= 1

\* KVSTORE_SYNCED is out, and a later full-sync response, accepted from a
\* peer of area "1", published nothing more.
LaterSyncSuccessSilent ==
  /\ numKvStoreSynced[Self] = 1
  /\ out.op = "processThriftSuccess"
  /\ out.applied # {}
  /\ out.pushed = <<>>

\* C7: KVSTORE_SYNCED has been published if and only if every configured
\* area has reached initialSyncCompleted.
SyncedIffAllAreasCompleted ==
  (numKvStoreSynced[Self] >= 1) <=> AllAreasCompleted(Self)

\* The handler that completed the last area published KVSTORE_SYNCED, with
\* area "1" completed by a peer that reached INITIALIZED.
SyncedPublishedOnLastArea ==
  /\ Len(out.pushed) = 1
  /\ out.pushed[1].type = "InitializationEvent"
  /\ AllAreasCompleted(Self)
  /\ \E p \in DOMAIN peersOf(Self, "1") : peersOf(Self, "1")[p].state = INITIALIZED

\* C8: an area with peers, all of them INITIALIZED or failed, has
\* initialSyncCompleted set, whichever handler made that so: a sync
\* success, a sync failure, or the addition or deletion of a peer.
CompletedOncePeersDone ==
  \A a \in DOMAIN kvStoreDb[Self] :
     (DOMAIN peersOf(Self, a) # {} /\ PeersDone(Self, a))
       => kvStoreDb[Self][a].initialSyncCompleted

\* C9: after a peer event every area without peers is completed, and an
\* area without peers is completed by no handler other than the one that
\* processes a peer event.
EmptyAreaCompletedOnPeerEvent ==
  [][/\ out'.op = "processPeerUpdates" =>
          \A a \in DOMAIN kvStoreDb[Self] :
             DOMAIN peersOf(Self, a)' = {} =>
               kvStoreDb[Self][a].initialSyncCompleted'
     /\ \A a \in DOMAIN kvStoreDb[Self] :
          (/\ ~kvStoreDb[Self][a].initialSyncCompleted
           /\ kvStoreDb[Self][a].initialSyncCompleted'
           /\ DOMAIN peersOf(Self, a)' = {})
          => out'.op = "processPeerUpdates"]_vars

\* A peer event was processed: area "2", which has no peer, is completed,
\* while area "1" has peers and is still syncing.
EmptyAreaCompleted ==
  /\ out.op = "processPeerUpdates"
  /\ DOMAIN peersOf(Self, "2") = {}
  /\ kvStoreDb[Self]["2"].initialSyncCompleted
  /\ DOMAIN peersOf(Self, "1") # {}
  /\ ~kvStoreDb[Self]["1"].initialSyncCompleted

\* The transition table of the peer state machine, cell by cell
TransitionTable ==
  {<<IDLE, PEER_ADD, SYNCING>>,
   <<IDLE, THRIFT_API_ERROR, IDLE>>,
   <<SYNCING, SYNC_RESP_RCVD, INITIALIZED>>,
   <<SYNCING, THRIFT_API_ERROR, IDLE>>,
   <<INITIALIZED, SYNC_RESP_RCVD, INITIALIZED>>,
   <<INITIALIZED, THRIFT_API_ERROR, IDLE>>}

\* C10: every state change a handler applies is a cell of the transition
\* table, and no handler applies an event in a state without a cell (the
\* CHECK of getNextState never fails).
TransitionsFollowTable ==
  /\ out.applied \subseteq TransitionTable
  /\ ~aborted[Self]

\* A request to a peer that had reached INITIALIZED failed, and the
\* handler applied the cell INITIALIZED, THRIFT_API_ERROR -> IDLE.
InitializedPeerFailed ==
  /\ out.op = "processThriftFailure"
  /\ out.applied = {<<INITIALIZED, THRIFT_API_ERROR, IDLE>>}
  /\ peersOf(Self, out.area)[out.rcvd.senderId].state = IDLE

----------------------------------------------------------------------------
(* SpecMergeOrder: mergeKeyValues as a function.  A map that lacks or      *)
(* holds the key and two value-bearing records for it are drawn; the       *)
(* records are merged in both orders.                                      *)

Hashed(r) ==
  [r EXCEPT !.hash = generateHash(r.version, r.originatorId, r.value)]

MergeOne(kvStore, r) ==
  mergeKeyValues(kvStore, [k \in {"k1"} |-> r], "skip").kvStore

InitMergeOrder ==
  /\ kvStoreDb = StoreOf(Self, {Area})
  /\ initialSyncSignalSent = [n \in NodeIds |-> FALSE]
  /\ aborted = [n \in NodeIds |-> FALSE]
  /\ numKvStoreSynced = [n \in NodeIds |-> 0]
  /\ cmdKeySet = [n \in NodeIds |-> 0]
  /\ rpcs = EmptyBag
  /\ now = 0
  /\ out = NoOut
  /\ alg \in {[phase |-> "start", r1 |-> r1, r2 |-> r2, ab |-> m, ba |-> m] :
                r1 \in ValueRecords, r2 \in ValueRecords,
                m \in {EmptyMap} \cup {[k \in {"k1"} |-> Hashed(r)] : r \in ValueRecords}}

MergeFirst ==
  /\ alg.phase = "start"
  /\ alg' = [alg EXCEPT !.phase = "first",
                        !.ab = MergeOne(alg.ab, alg.r1),
                        !.ba = MergeOne(alg.ba, alg.r2)]
  /\ UNCHANGED <<kvStoreDb, initialSyncSignalSent, aborted, rpcs, now, out,
                 numKvStoreSynced, cmdKeySet>>

MergeSecond ==
  /\ alg.phase = "first"
  /\ alg' = [alg EXCEPT !.phase = "done",
                        !.ab = MergeOne(alg.ab, alg.r2),
                        !.ba = MergeOne(alg.ba, alg.r1)]
  /\ UNCHANGED <<kvStoreDb, initialSyncSignalSent, aborted, rpcs, now, out,
                 numKvStoreSynced, cmdKeySet>>

NextMergeOrder == MergeFirst \/ MergeSecond

SpecMergeOrder == InitMergeOrder /\ [][NextMergeOrder]_vars

Tuple(r) == <<r.version, r.originatorId, r.value>>

\* C3: merging r1 then r2 leaves the same (version, originator id,
\* payload) for the key as merging r2 then r1.
MergeOrderIrrelevant ==
  alg.phase = "done" =>
    /\ "k1" \in DOMAIN alg.ab /\ "k1" \in DOMAIN alg.ba
    /\ Tuple(alg.ab["k1"]) = Tuple(alg.ba["k1"])

\* Two records that differ in the payload only were merged, in both
\* orders, into a map that lacked the key: the higher payload is held.
PayloadTiebreakBothOrders ==
  /\ alg.phase = "done"
  /\ alg.r1.version = alg.r2.version
  /\ alg.r1.originatorId = alg.r2.originatorId
  /\ alg.r1.value = "x" /\ alg.r2.value = "y"
  /\ alg.ab["k1"].value = "y" /\ alg.ba["k1"].value = "y"
  /\ alg.ab["k1"].version = alg.r1.version

----------------------------------------------------------------------------
(* SpecMesh: two stores, A and B, each the other's only peer in one area.  *)
(* Each starts with the records it holds; clients may still set keys, a    *)
(* bounded number of times.  Full-sync requests, their responses, the      *)
(* finalize-syncs and the floods are delivered in any order, and every     *)
(* one of them is delivered eventually.                                    *)

MeshNodes == {"A", "B"}

OtherNode(n) == IF n = "A" THEN "B" ELSE "A"

MeshRecords ==
  {Value(1, "B", "x", kTtlInfinity, 0), Value(1, "B", "y", kTtlInfinity, 0),
   Value(1, "C", "x", kTtlInfinity, 0), Value(MaxVersion, "B", "x", kTtlInfinity, 0)}

MeshMaps == {EmptyMap} \cup {[k \in {"k1"} |-> Hashed(r)] : r \in MeshRecords}

MeshKeySetParams ==
  {[keyVals |-> [k \in {"k1"} |-> r], nodeIds |-> <<>>] : r \in MeshRecords}

\* The store of n holding kvStore when the peer event names the other node
MeshStarted(n, kvStore) ==
  processPeerUpdates(
    [Constructed(n, {Area}) EXCEPT !.dbs[Area].kvStore = kvStore],
    [a \in {Area} |->
       AreaPeerEvent([p \in {OtherNode(n)} |-> PeerAddr], {})],
    Env("skip", "earliest", {OtherNode(n)}, <<OtherNode(n)>>))

InitMesh ==
  \E held \in [MeshNodes -> MeshMaps] :
    /\ kvStoreDb = [n \in NodeIds |->
                      IF n \in MeshNodes THEN MeshStarted(n, held[n]).dbs
                      ELSE EmptyMap]
    /\ initialSyncSignalSent = [n \in NodeIds |-> FALSE]
    /\ aborted = [n \in NodeIds |-> FALSE]
    /\ numKvStoreSynced = [n \in NodeIds |-> 0]
    /\ cmdKeySet = [n \in NodeIds |-> 0]
    /\ rpcs = EmptyBag
    /\ now = 0
    /\ out = NoOut
    /\ alg = [phase |-> "mesh", held |-> held]

MeshSync == \E n \in MeshNodes : SyncTimerFires(n, Area)

MeshServe == \E r \in BagToSet(rpcs) : ServeFullSync(r)

MeshResponse == \E r \in BagToSet(rpcs) : FullSyncSuccess(r)

MeshDeliver == \E r \in BagToSet(rpcs) : DeliverSetKeyVals(r)

\* A client sets a key, while the mesh has taken fewer than MaxMeshSets
\* setKvStoreKeyVals calls
MeshSetKey ==
  /\ cmdKeySet["A"] + cmdKeySet["B"] < MaxMeshSets
  /\ \E n \in MeshNodes, setParams \in MeshKeySetParams :
       SetKey(n, Area, setParams)

NextMesh ==
  \/ MeshSync
  \/ MeshServe
  \/ MeshResponse
  \/ MeshDeliver
  \/ MeshSetKey

\* The event base runs a scheduled timer callback and the transport
\* delivers every request and every response: weak fairness of the four
\* steps.  No fairness for the clients' sets.
MeshFairness ==
  /\ WF_vars(MeshSync)
  /\ WF_vars(MeshServe)
  /\ WF_vars(MeshResponse)
  /\ WF_vars(MeshDeliver)

SpecMesh == InitMesh /\ [][NextMesh]_vars /\ MeshFairness

\* Both maps hold the same keys with the same (version, originator id,
\* payload), and that record is not less than any record a node started
\* with
Converged ==
  /\ DOMAIN kvStoreOf("A", Area) = DOMAIN kvStoreOf("B", Area)
  /\ \A k \in DOMAIN kvStoreOf("A", Area) :
       Tuple(kvStoreOf("A", Area)[k]) = Tuple(kvStoreOf("B", Area)[k])
  /\ \A n \in MeshNodes : \A k \in DOMAIN alg.held[n] :
       /\ k \in DOMAIN kvStoreOf("A", Area)
       /\ ~TupleLess(kvStoreOf("A", Area)[k], alg.held[n][k])

----------------------------------------------------------------------------
(* SpecSync: one 3-way full sync.  The stores A and B each hold the        *)
(* records clients set before or after the peer event that names the other *)
(* node; then A's sync timer fires, B serves the request, A processes the  *)
(* response and B receives the finalize-sync.  Nothing else happens and    *)
(* the clock stands still.                                                 *)

SyncRecords ==
  {Value(v, o[1], o[2], t, tv) :
     v \in 1..MaxVersion, o \in {<<"B", "x">>, <<"B", "y">>, <<"C", "x">>},
     t \in Ttls, tv \in 0..MaxTtlVersion}

\* k1 with any record or absent, k2 with one record or absent
SyncMaps ==
  {EmptyMap, [k \in {"k2"} |-> Value(1, "B", "x", kTtlInfinity, 0)]}
  \cup {[k \in {"k1"} |-> r] : r \in SyncRecords}
  \cup {[k \in {"k1", "k2"} |->
           IF k = "k1" THEN r ELSE Value(1, "B", "x", kTtlInfinity, 0)]
         : r \in SyncRecords}

\* The store of n once its clients have set `held` and the peer event has
\* named the other node, in either order
SyncStarted(n, held, early) ==
  LET env == Env("skip", "earliest", {OtherNode(n)}, <<OtherNode(n)>>)
      event == [a \in {Area} |->
                  AreaPeerEvent([p \in {OtherNode(n)} |-> PeerAddr], {})]
      setParams == [keyVals |-> held, nodeIds |-> <<>>]
  IN  IF early
      THEN processPeerUpdates(
             setKeyVals(Constructed(n, {Area}), Area, setParams, env), event, env)
      ELSE setKeyVals(
             processPeerUpdates(Constructed(n, {Area}), event, env),
             Area, setParams, env)

InitSync ==
  \E held \in [MeshNodes -> SyncMaps], early \in BOOLEAN :
    /\ kvStoreDb = [n \in NodeIds |->
                      IF n \in MeshNodes THEN SyncStarted(n, held[n], early).dbs
                      ELSE EmptyMap]
    /\ initialSyncSignalSent = [n \in NodeIds |-> FALSE]
    /\ aborted = [n \in NodeIds |-> FALSE]
    /\ numKvStoreSynced = [n \in NodeIds |-> 0]
    /\ cmdKeySet = [n \in NodeIds |-> IF n \in MeshNodes THEN 1 ELSE 0]
    /\ rpcs = EmptyBag
    /\ now = 0
    /\ out = NoOut
    /\ alg = [phase |-> "sync", held |-> held]

NextSync ==
  \/ SyncTimerFires("A", Area)
  \/ \E r \in BagToSet(rpcs) : ServeFullSync(r)
  \/ \E r \in BagToSet(rpcs) : FullSyncSuccess(r)
  \/ \E r \in BagToSet(rpcs) : DeliverSetKeyVals(r)

SpecSync == InitSync /\ [][NextSync]_vars

\* C14 as stated: after the request, the response and the finalize-sync,
\* both stores hold, for every key either held before, a record with the
\* same (version, originator id, payload).
BothHoldEveryKeyAfterSync ==
  (/\ alg.phase = "sync" /\ rpcs = EmptyBag
   /\ peersOf("A", Area)["B"].state = INITIALIZED) =>
     \A k \in DOMAIN alg.held["A"] \cup DOMAIN alg.held["B"] :
        /\ k \in DOMAIN kvStoreOf("A", Area) /\ k \in DOMAIN kvStoreOf("B", Area)
        /\ Tuple(kvStoreOf("A", Area)[k]) = Tuple(kvStoreOf("B", Area)[k])

\* C14, amended: the same for every key whose records held before the sync
\* have an infinite ttl or more than the ttl decrement left.
BothHoldEveryLastingKeyAfterSync ==
  (/\ alg.phase = "sync" /\ rpcs = EmptyBag
   /\ peersOf("A", Area)["B"].state = INITIALIZED) =>
     \A k \in DOMAIN alg.held["A"] \cup DOMAIN alg.held["B"] :
        (\A n \in MeshNodes :
            k \in DOMAIN alg.held[n] =>
              \/ alg.held[n][k].ttl = kTtlInfinity
              \/ alg.held[n][k].ttl > ttlDecr) =>
          /\ k \in DOMAIN kvStoreOf("A", Area) /\ k \in DOMAIN kvStoreOf("B", Area)
          /\ Tuple(kvStoreOf("A", Area)[k]) = Tuple(kvStoreOf("B", Area)[k])

\* A held only k1 and B held only k2; the sync is complete, with the
\* finalize-sync delivered to B, and both hold both keys.
BothKeysExchanged ==
  /\ alg.phase = "sync" /\ rpcs = EmptyBag
  /\ DOMAIN alg.held["A"] = {"k1"} /\ DOMAIN alg.held["B"] = {"k2"}
  /\ peersOf("A", Area)["B"].state = INITIALIZED
  /\ out.op = "setKeyVals" /\ out.node = "B" /\ out.rcvd.nodeIds = <<"A">>
  /\ DOMAIN kvStoreOf("A", Area) = {"k1", "k2"}
  /\ DOMAIN kvStoreOf("B", Area) = {"k1", "k2"}

----------------------------------------------------------------------------
(* Properties of the flooder (Spec, SpecFlood).                            *)

\* C15: a delta produced by merging a publication received from a peer is
\* never flooded back to that peer, whether it is flooded at once or held
\* in the rate-limit buffer and flooded at a later drain.  In SpecFlood the
\* records a peer originates reach the store from that peer only, so the
\* direct sender of a record's delta is its originator.
NeverFloodedBackToSender ==
  \A r \in out.sent :
     r.purpose = "FLOOD_PUB" =>
       \A k \in DOMAIN r.params.keyVals :
          r.params.keyVals[k].originatorId # r.to

----------------------------------------------------------------------------
(* Properties of key expiry (SpecTtl, SpecFlood).                          *)

\* C17: a record with a finite ttl that is not updated leaves the map no
\* later than ttl after it was accepted, up to the firing of the timer, and
\* the countdown timer is armed whenever the queue is non-empty.  While
\* such a record is in the map, the queue holds an entry for it that is
\* not overdue and expires within the record's ttl from now, and the timer
\* is set to fire no later than that entry.
ExpiresWithinTtl ==
  LET db == kvStoreDb[Self][Area]
  IN  /\ db.ttlCountdownQueue # {} => db.ttlCountdownTimer # {}
      /\ \A k \in DOMAIN db.kvStore :
           db.kvStore[k].ttl # kTtlInfinity =>
             \E e \in db.ttlCountdownQueue :
                /\ EntryMatches(e, k, db.kvStore[k])
                /\ now <= e.expiryTime
                /\ e.expiryTime <= now + db.kvStore[k].ttl
                /\ \A d \in db.ttlCountdownTimer : d <= e.expiryTime

\* The countdown timer fired at the end of the longest ttl and the record
\* left the map: the subscribers were told that k1 expired.
RecordExpired ==
  /\ out.op = "cleanupTtlCountdownQueue"
  /\ now = MaxTtl
  /\ Len(out.pushed) = 1 /\ out.pushed[1].pub.expiredKeys = {"k1"}
  /\ kvStoreOf(Self, Area) = EmptyMap

\* C18: a record leaves the map by expiry only through a queue entry that
\* matches its (key, version, originator id, ttl_version) and is due, and
\* never earlier than its ttl after the merge that last wrote it.
EvictedOnlyAfterTtl ==
  [][\A k \in DOMAIN kvStoreOf(Self, Area) :
       (out'.op = "cleanupTtlCountdownQueue"
          /\ k \notin DOMAIN kvStoreOf(Self, Area)') =>
         /\ \E e \in kvStoreDb[Self][Area].ttlCountdownQueue :
              /\ EntryMatches(e, k, kvStoreOf(Self, Area)[k])
              /\ e.expiryTime <= now
         /\ kvStoreOf(Self, Area)[k].ttl # kTtlInfinity
         /\ now >= alg.written[k] + kvStoreOf(Self, Area)[k].ttl]_vars

\* C19: a record whose ttl is infinite is never removed by expiry, and the
\* merge that accepts a record with an infinite ttl adds no entry for its key
\* to the countdown queue.
InfiniteTtlNeverExpires ==
  [][\A k \in DOMAIN kvStoreOf(Self, Area) \cup DOMAIN kvStoreOf(Self, Area)' :
       /\ (/\ out'.op = "cleanupTtlCountdownQueue"
           /\ k \in DOMAIN kvStoreOf(Self, Area)
           /\ kvStoreOf(Self, Area)[k].ttl = kTtlInfinity) =>
            k \in DOMAIN kvStoreOf(Self, Area)'
       /\ (/\ k \in DOMAIN kvStoreOf(Self, Area)'
           /\ kvStoreOf(Self, Area)'[k].ttl = kTtlInfinity
           /\ (k \in DOMAIN kvStoreOf(Self, Area) =>
                 kvStoreOf(Self, Area)[k] # kvStoreOf(Self, Area)'[k])) =>
            \A e \in kvStoreDb[Self][Area].ttlCountdownQueue' :
               e.key = k => e \in kvStoreDb[Self][Area].ttlCountdownQueue]_vars

\* C20: an expired key reaches the internal subscribers only.  Every flood
\* or finalize-sync request a step sends carries a non-empty set of keys
\* that are all in the map after the step, and the requests sent by the
\* step that evicts a key carry only keys that were waiting in the
\* rate-limit buffer before it.
ExpiredKeysStayInternal ==
  [][rpcs' # rpcs =>
       \A r \in out'.sent :
          r.purpose \in {"FLOOD_PUB", "FINALIZE_SYNC"} =>
            /\ DOMAIN r.params.keyVals # {}
            /\ DOMAIN r.params.keyVals \subseteq DOMAIN kvStoreOf(Self, Area)'
            /\ out'.op = "cleanupTtlCountdownQueue" =>
                 DOMAIN r.params.keyVals \subseteq
                   kvStoreDb[Self][Area].publicationBuffer]_vars

\* k1 expired while k2 waited in the rate-limit buffer: the subscribers were
\* told of both, the peers were sent k2 only.
ExpiryDrainedBuffer ==
  /\ out.op = "cleanupTtlCountdownQueue" /\ Len(out.pushed) = 1
  /\ out.pushed[1].pub.expiredKeys = {"k1"}
  /\ DOMAIN out.pushed[1].pub.keyVals = {"k2"}
  /\ out.sent # {}
  /\ \A r \in out.sent : DOMAIN r.params.keyVals = {"k2"}

----------------------------------------------------------------------------
(* Properties of the publications that leave the node (SpecTtl).           *)

\* C21: in every flood and finalize-sync the node sends, a finite ttl is
\* positive and at least ttlDecr below the ttl the map stores for the key.
\* A finite ttl sent for a record the map stores with an infinite ttl is
\* counted as below it.
PublishedTtlBelowStored ==
  \A r \in out.sent :
     r.purpose \in {"FLOOD_PUB", "FINALIZE_SYNC"} =>
       \A k \in DOMAIN r.params.keyVals :
          r.params.keyVals[k].ttl # kTtlInfinity =>
            /\ r.params.keyVals[k].ttl > 0
            /\ (k \in DOMAIN kvStoreOf(Self, Area)
                  /\ kvStoreOf(Self, Area)[k].ttl # kTtlInfinity) =>
                 r.params.keyVals[k].ttl + ttlDecr <=
                   kvStoreOf(Self, Area)[k].ttl

\* C22: no record of the map lacks a payload.  Setting a value-less record
\* for a key the map lacks changes nothing in the store and publishes
\* nothing; for a key the map holds it leaves the key's version, originator
\* id, payload and hash as they were.
ValueLessNeverStored ==
  /\ \A k \in DOMAIN kvStoreOf(Self, Area) :
       kvStoreOf(Self, Area)[k].value # NoValue
  /\ \A setParams \in {p \in TtlKeySetParams : p.keyVals["k1"].value = NoValue} :
       \A ub \in UbChoices(Self, Area, setParams.keyVals),
          pick \in PickOptions(Self, Area) :
          \A c \in {setKeyVals(Ctx(Self), Area, setParams,
                               Env(ub, pick, {}, <<>>))} :
             IF "k1" \notin DOMAIN kvStoreOf(Self, Area)
             THEN /\ c.dbs = kvStoreDb[Self]
                  /\ c.sent = {} /\ c.pushed = <<>>
             ELSE /\ "k1" \in DOMAIN c.dbs[Area].kvStore
                  /\ \A f \in {"version", "originatorId", "value", "hash"} :
                       c.dbs[Area].kvStore["k1"][f] =
                         kvStoreOf(Self, Area)["k1"][f]

\* A value-less record refreshed k1: the delta carries no value, the map
\* still holds the payload y under the new ttl_version.
RefreshKeptPayload ==
  /\ out.op = "setKeyVals" /\ Len(out.pushed) = 1
  /\ "k1" \in DOMAIN out.pushed[1].pub.keyVals
  /\ out.pushed[1].pub.keyVals["k1"].value = NoValue
  /\ out.pushed[1].pub.keyVals["k1"].ttlVersion = 1
  /\ "k1" \in DOMAIN kvStoreOf(Self, Area)
  /\ kvStoreOf(Self, Area)["k1"].value = "y"
  /\ kvStoreOf(Self, Area)["k1"].ttlVersion = 1
  /\ kvStoreOf(Self, Area)["k1"].hash = generateHash(1, "B", "y")

----------------------------------------------------------------------------
(* Properties of the self-originated keys (SpecSelf).                      *)

UnsetDrains ==
  /\ out'.op = "unsetPendingSelfOriginatedKeys"
  /\ kvStoreDb[Self][Area].unsetSelfOriginatedKeysThrottled
  /\ ~kvStoreDb'[Self][Area].unsetSelfOriginatedKeysThrottled

\* C24 as stated: when persist(k1) and unset(k1) were both issued within
\* the unset-throttle window that drains, whatever their order, the drain
\* advertises no record for k1 and k1 is still in the cache.
PersistWinsEitherOrder ==
  [][(UnsetDrains /\ ClientOps \subseteq alg.window) =>
       /\ "k1" \in DOMAIN kvStoreDb'[Self][Area].selfOriginatedKeyVals
       /\ \A i \in DOMAIN out'.pushed :
             "k1" \notin DOMAIN out'.pushed[i].pub.keyVals]_vars

\* C24, amended: of a persist(k1) and an unset(k1) issued within the
\* unset-throttle window that drains, the later call wins.  After a later
\* persist the drain advertises nothing for k1, leaves the map alone and k1
\* stays in the cache as it was; after a later unset k1 is out of the cache
\* and the drain merges the tombstone whenever the map holds no record of
\* k1 with a version as high as the tombstone's.
LaterOfPersistAndUnsetWins ==
  [][(UnsetDrains /\ ClientOps \subseteq alg.window) =>
       \A db \in {kvStoreDb[Self][Area]} :
       \A db1 \in {kvStoreDb'[Self][Area]} :
          IF alg.last = "persistSelfOriginatedKey"
          THEN /\ "k1" \in DOMAIN db.selfOriginatedKeyVals
               /\ db1.selfOriginatedKeyVals = db.selfOriginatedKeyVals
               /\ db1.kvStore = db.kvStore
               /\ \A i \in DOMAIN out'.pushed :
                     "k1" \notin DOMAIN out'.pushed[i].pub.keyVals
          ELSE /\ "k1" \notin DOMAIN db1.selfOriginatedKeyVals
               /\ "k1" \in DOMAIN db.keysToUnset
               /\ ("k1" \in DOMAIN db.kvStore =>
                     db.kvStore["k1"].version < db.keysToUnset["k1"].version)
                   => /\ "k1" \in DOMAIN db1.kvStore
                      /\ db1.kvStore["k1"].value = Tombstone
                      /\ db1.kvStore["k1"].originatorId = Self]_vars

\* The batch has drained after unset(k1) and then persist(k1) in its window:
\* k1 is cached and the map holds no tombstone.
PersistAfterUnsetKept ==
  /\ out.op = "unsetPendingSelfOriginatedKeys"
  /\ alg.window = ClientOps /\ alg.last = "persistSelfOriginatedKey"
  /\ ~kvStoreDb[Self][Area].unsetSelfOriginatedKeysThrottled
  /\ kvStoreDb[Self][Area].keysToUnset = EmptyMap
  /\ "k1" \in DOMAIN kvStoreDb[Self][Area].selfOriginatedKeyVals
  /\ "k1" \in DOMAIN kvStoreDb[Self][Area].kvStore
  /\ kvStoreDb[Self][Area].kvStore["k1"].value # Tombstone

\* C25: when the unset batch drains with a tombstone queued for k1, k1 in
\* the map and no persist(k1) after the unset, the map then holds for k1
\* the payload of the tombstone with originator Self and a version one
\* above the record it replaced, whatever was merged since the unset, and
\* k1 is not in the cache.
UnsetOverwrites ==
  [][UnsetDrains =>
       \A db \in {kvStoreDb[Self][Area]} :
       \A db1 \in {kvStoreDb'[Self][Area]} :
          ("k1" \in DOMAIN db.keysToUnset /\ "k1" \in DOMAIN db.kvStore
             /\ "k1" \notin DOMAIN db.selfOriginatedKeyVals) =>
            /\ "k1" \in DOMAIN db1.kvStore
            /\ db1.kvStore["k1"].value = Tombstone
            /\ db1.kvStore["k1"].originatorId = Self
            /\ db1.kvStore["k1"].version = db.kvStore["k1"].version + 1
            /\ "k1" \notin DOMAIN db1.selfOriginatedKeyVals]_vars

\* The map holds for the cached key k1 a record that is not the node's own:
\* another originator or another payload than the cached one
ForeignOverCached ==
  \A db \in {kvStoreDb[Self][Area]} :
     /\ "k1" \in DOMAIN db.selfOriginatedKeyVals
     /\ "k1" \in DOMAIN db.kvStore
     /\ \/ db.kvStore["k1"].originatorId # Self
        \/ db.kvStore["k1"].value # db.selfOriginatedKeyVals["k1"].value.value

\* The map holds the cached payload of k1 with originator Self, or a client
\* has taken k1 out of the cache
OwnRestored ==
  \A db \in {kvStoreDb[Self][Area]} :
     "k1" \in DOMAIN db.selfOriginatedKeyVals =>
        /\ "k1" \in DOMAIN db.kvStore
        /\ db.kvStore["k1"].originatorId = Self
        /\ db.kvStore["k1"].value = db.selfOriginatedKeyVals["k1"].value.value

\* C26, the step: when a setKeyVals merges into the map a record for the
\* cached key k1 whose version is greater than the cached one, or equal
\* with another originator or payload, the cached version becomes the
\* incoming version plus one and k1 is queued for advertisement.
OverrideOnMerge ==
  [][\A db \in {kvStoreDb[Self][Area]} :
     \A db1 \in {kvStoreDb'[Self][Area]} :
        (/\ out'.op = "setKeyVals" /\ cmdKeySet' # cmdKeySet
         /\ "k1" \in DOMAIN db.selfOriginatedKeyVals
         /\ "k1" \in DOMAIN db1.kvStore
         /\ "k1" \notin DOMAIN db.kvStore
               \/ Tuple(db.kvStore["k1"]) # Tuple(db1.kvStore["k1"])
         /\ \/ db1.kvStore["k1"].version >
                 db.selfOriginatedKeyVals["k1"].value.version
            \/ /\ db1.kvStore["k1"].version =
                     db.selfOriginatedKeyVals["k1"].value.version
               /\ \/ db1.kvStore["k1"].originatorId # Self
                  \/ db1.kvStore["k1"].value #
                       db.selfOriginatedKeyVals["k1"].value.value)
        => /\ "k1" \in DOMAIN db1.selfOriginatedKeyVals
           /\ db1.selfOriginatedKeyVals["k1"].value.version =
                 db1.kvStore["k1"].version + 1
           /\ "k1" \in db1.keysToAdvertise
           /\ db1.advertiseSelfOriginatedKeysThrottled]_vars

\* The clock of the run has reached its bound while the map holds a record
\* of k1 that has yet to expire
ExpiryPending ==
  /\ now = MaxTime
  /\ "k1" \in DOMAIN kvStoreDb[Self][Area].kvStore
  /\ kvStoreDb[Self][Area].kvStore["k1"].ttl # kTtlInfinity

\* C26: a record that is not the node's own, in the map for a cached key,
\* leads to the map holding the cached payload with originator Self (a run
\* that ends with a record still to expire is not counted against it).
CachedKeyRestored == ForeignOverCached ~> (OwnRestored \/ ExpiryPending)

----------------------------------------------------------------------------
(* Properties of the area lookup (SpecArea).                               *)

\* The step changes nothing of the store
StoreUnchanged ==
  UNCHANGED <<kvStoreDb, initialSyncSignalSent, aborted, rpcs,
              numKvStoreSynced, cmdKeySet>>

\* C27 as stated: a request naming an area that is not configured fails
\* with InvalidArea and changes nothing, unless it names area "0" and
\* exactly one area is configured, when it is served.
OnlyWildcardFallsBack ==
  [][out'.area \notin DOMAIN kvStoreDb[Self] =>
       IF out'.area = kDefaultArea /\ Cardinality(DOMAIN kvStoreDb[Self]) = 1
       THEN out'.error = NoError
       ELSE out'.error = InvalidArea /\ StoreUnchanged]_vars

\* C27, amended: a request naming an area that is not configured fails
\* with InvalidArea and changes nothing, unless exactly one area is
\* configured and either the request names area "0" or the configured
\* area is "0"; it is then served by the configured area: no error, a
\* setKvStoreKeyVals is counted and leaves its key in that area's map, an
\* added peer is in that area's peers.
SingleAreaFallsBack ==
  [][out'.area \notin DOMAIN kvStoreDb[Self] =>
       IF /\ Cardinality(DOMAIN kvStoreDb[Self]) = 1
          /\ (out'.area = kDefaultArea \/ kDefaultArea \in DOMAIN kvStoreDb[Self])
       THEN \A a \in DOMAIN kvStoreDb[Self] :
              /\ out'.error = NoError
              /\ out'.op = "setKvStoreKeyVals" =>
                    /\ cmdKeySet'[Self] = cmdKeySet[Self] + 1
                    /\ out'.rcvd.keys \subseteq DOMAIN kvStoreDb'[Self][a].kvStore
              /\ out'.op = "addUpdateKvStorePeers" =>
                    /\ out'.peerAdds # {}
                    /\ \A e \in out'.peerAdds :
                          /\ e[1] = a
                          /\ e[2] \in DOMAIN kvStoreDb'[Self][a].thriftPeers
       ELSE out'.error = InvalidArea /\ StoreUnchanged]_vars

\* A node configured with area "0" alone has served a setKvStoreKeyVals
\* that named area "2"
DefaultAreaServedOther ==
  /\ DOMAIN kvStoreDb[Self] = {kDefaultArea}
  /\ out.op = "setKvStoreKeyVals" /\ out.area = "2" /\ out.error = NoError
  /\ "k1" \in DOMAIN kvStoreDb[Self][kDefaultArea].kvStore
  /\ cmdKeySet[Self] = 1

----------------------------------------------------------------------------
(* Properties of the parallel-sync cap (SpecCap).                          *)

\* C28: in every area the peers in state SYNCING are at most
\* parallelSyncLimitOverThrift_ of that area.
SyncingWithinCap ==
  \A a \in DOMAIN kvStoreDb[Self] :
     Cardinality(getPeersByState(kvStoreDb[Self][a], SYNCING))
       <= kvStoreDb[Self][a].parallelSyncLimitOverThrift

----------------------------------------------------------------------------
(* Properties of the keys queued for a peer that is not INITIALIZED         *)
(* (SpecFlood).                                                            *)

\* The finalize-sync of the step carries to peer p the record the map
\* holds for key k
SentInFinalizeSync(p, k) ==
  /\ k \in DOMAIN kvStoreOf(Self, Area)'
  /\ \E r \in out'.sent :
        /\ r.purpose = "FINALIZE_SYNC" /\ r.to = p
        /\ k \in DOMAIN r.params.keyVals
        /\ Tuple(r.params.keyVals[k]) = Tuple(kvStoreOf(Self, Area)'[k])

\* C29 as stated: a key leaves pendingKeysDuringInitialization of a peer
\* whose record stays only in a step that sends it to that peer in a
\* finalize-sync, with the record the map holds.
PendingKeysAllSent ==
  [][\A p \in DOMAIN peersOf(Self, Area) \cap DOMAIN peersOf(Self, Area)' :
       \A k \in peersOf(Self, Area)[p].pendingKeysDuringInitialization \
                peersOf(Self, Area)'[p].pendingKeysDuringInitialization :
          SentInFinalizeSync(p, k)]_vars

\* C29, amended: a key leaves pendingKeysDuringInitialization of a peer
\* whose record stays only when that peer's full-sync response is
\* processed; the step sends it to the peer in a finalize-sync, with the
\* record the map holds, if the map holds the key with an infinite ttl or
\* with more than ttlDecr left to live, and sends no record of it
\* otherwise.
PendingLastingKeysSent ==
  [][\A p \in DOMAIN peersOf(Self, Area) \cap DOMAIN peersOf(Self, Area)' :
       \A k \in peersOf(Self, Area)[p].pendingKeysDuringInitialization \
                peersOf(Self, Area)'[p].pendingKeysDuringInitialization :
          /\ out'.op = "processThriftSuccess" /\ out'.rcvd.senderId = p
          /\ IF /\ k \in DOMAIN kvStoreOf(Self, Area)'
                /\ \A e \in kvStoreDb'[Self][Area].ttlCountdownQueue :
                      EntryMatches(e, k, kvStoreOf(Self, Area)'[k]) =>
                        e.expiryTime - now > ttlDecr
             THEN SentInFinalizeSync(p, k)
             ELSE \A r \in out'.sent :
                    r.purpose = "FINALIZE_SYNC" => k \notin DOMAIN r.params.keyVals]_vars

\* The empty full-sync response of C has been processed and the key queued
\* for C went out in the finalize-sync
QueuedKeySentToPeer ==
  /\ out.op = "processThriftSuccess" /\ out.rcvd.senderId = "C"
  /\ out.rcvd.keys = {}
  /\ peersOf(Self, Area)["C"].pendingKeysDuringInitialization = {}
  /\ "k1" \in DOMAIN kvStoreOf(Self, Area)
  /\ \E r \in out.sent :
        /\ r.purpose = "FINALIZE_SYNC" /\ r.to = "C"
        /\ "k1" \in DOMAIN r.params.keyVals
        /\ Tuple(r.params.keyVals["k1"]) = Tuple(kvStoreOf(Self, Area)["k1"])

----------------------------------------------------------------------------
(* Properties of the full-sync response (SpecSync).                        *)

\* Record mine wins against the hash-only record req of the request: a
\* greater version, or the same version and a greater originator id, or the
\* same version, originator and hash and a greater ttl version
WinsOverHash(mine, req) ==
  \/ mine.version > req.version
  \/ /\ mine.version = req.version
     /\ StrCompare(mine.originatorId, req.originatorId) > 0
  \/ /\ mine.version = req.version /\ mine.originatorId = req.originatorId
     /\ mine.hash = req.hash /\ mine.ttlVersion > req.ttlVersion

\* The two cannot be ordered: same version and originator, another hash,
\* and the request carries no payload to compare
Unordered(mine, req) ==
  /\ mine.version = req.version /\ mine.originatorId = req.originatorId
  /\ mine.hash # req.hash

\* The keys the responder holds that the request lacks or loses, and the
\* keys of the request the responder lacks or loses
KeysResponderWins(held, hashes) ==
  {k \in DOMAIN held :
     \/ k \notin DOMAIN hashes
     \/ WinsOverHash(held[k], hashes[k]) \/ Unordered(held[k], hashes[k])}

KeysInitiatorWins(held, hashes) ==
  {k \in DOMAIN hashes :
     \/ k \notin DOMAIN held
     \/ WinsOverHash(hashes[k], held[k]) \/ Unordered(held[k], hashes[k])}

\* The full-sync requests the step has answered
Served == {r \in BagToSet(rpcs') \ BagToSet(rpcs) :
             r.purpose = "FULL_SYNC" /\ r.resp # NoResp}

\* C30 as stated: the response's key_vals are exactly the keys the
\* responder holds that the initiator's hashes lack or lose to (or cannot
\* be ordered against), its tobe_updated_keys exactly the keys the
\* responder lacks or loses (or cannot order).
ResponseIsDifference ==
  [][\A r \in Served :
       \A held \in {kvStoreDb[r.to][r.area].kvStore} :
          /\ DOMAIN r.resp[1].keyVals =
                KeysResponderWins(held, r.params.keyValHashes)
          /\ r.resp[1].tobeUpdatedKeys =
                KeysInitiatorWins(held, r.params.keyValHashes)]_vars

\* C30, amended: the same, with key_vals holding only those of the keys
\* whose record at the responder has an infinite ttl or more than ttlDecr
\* left to live.
ResponseIsLastingDifference ==
  [][\A r \in Served :
       \A db \in {kvStoreDb[r.to][r.area]} :
          /\ DOMAIN r.resp[1].keyVals =
                {k \in KeysResponderWins(db.kvStore, r.params.keyValHashes) :
                   \A e \in db.ttlCountdownQueue :
                      EntryMatches(e, k, db.kvStore[k]) =>
                        e.expiryTime - now > ttlDecr}
          /\ r.resp[1].tobeUpdatedKeys =
                KeysInitiatorWins(db.kvStore, r.params.keyValHashes)]_vars

\* B has answered A's request when both hold k1 with the same version and
\* originator and another payload: k1 is in key_vals and in
\* tobe_updated_keys
UnorderedKeyBothWays ==
  \E r \in BagToSet(rpcs) :
     /\ r.purpose = "FULL_SYNC" /\ r.resp # NoResp /\ r.to = "B"
     /\ "k1" \in DOMAIN r.params.keyValHashes
     /\ "k1" \in DOMAIN kvStoreOf("B", Area)
     /\ Unordered(kvStoreOf("B", Area)["k1"], r.params.keyValHashes["k1"])
     /\ "k1" \in DOMAIN r.resp[1].keyVals
     /\ "k1" \in r.resp[1].tobeUpdatedKeys

----------------------------------------------------------------------------
(* Properties of ttl versions over full sync (SpecSync).                   *)

\* C31: a key whose version, originator id and payload (hence hash) are the
\* same at the responder and in the initiator's request is in neither
\* key_vals nor tobe_updated_keys of the full-sync response, even when the
\* two hold different ttl versions.
TtlUpdatesNeverRideOnFullSync ==
  [][\A r \in Served :
       \A held \in {kvStoreDb[r.to][r.area].kvStore} :
          \A k \in DOMAIN held \cap DOMAIN r.params.keyValHashes :
             (/\ held[k].version = r.params.keyValHashes[k].version
              /\ held[k].originatorId = r.params.keyValHashes[k].originatorId
              /\ held[k].hash = r.params.keyValHashes[k].hash) =>
               /\ k \notin DOMAIN r.resp[1].keyVals
               /\ k \notin r.resp[1].tobeUpdatedKeys]_vars

----------------------------------------------------------------------------
(* Properties of the doubling of the parallel-sync cap (SpecCap).          *)

\* C32: when a full-sync response is processed for a peer in SYNCING, the
\* peer becomes INITIALIZED and parallelSyncLimitOverThrift_ becomes the
\* smaller of twice its value and kMaxFullSyncPendingCountThreshold; in
\* every step the cap stays within the ceiling and does not decrease.
CapDoublesUpToCeiling ==
  [][\A db \in {kvStoreDb[Self][Area]} : \A db1 \in {kvStoreDb'[Self][Area]} :
       /\ db1.parallelSyncLimitOverThrift <= kMaxFullSyncPendingCountThreshold
       /\ db1.parallelSyncLimitOverThrift >= db.parallelSyncLimitOverThrift
       /\ \A p \in DOMAIN db.thriftPeers :
            (/\ rpcs' # rpcs /\ out'.op = "processThriftSuccess"
             /\ out'.rcvd.senderId = p /\ db.thriftPeers[p].state = SYNCING) =>
              /\ p \in DOMAIN db1.thriftPeers
              /\ db1.thriftPeers[p].state = INITIALIZED
              /\ db1.parallelSyncLimitOverThrift =
                   Min(2 * db.parallelSyncLimitOverThrift,
                       kMaxFullSyncPendingCountThreshold)]_vars

\* The second response has been processed: two peers are INITIALIZED and
\* the cap, doubled once from 2 to 4, has stayed at the ceiling
CapHeldAtCeiling ==
  /\ out.op = "processThriftSuccess"
  /\ Cardinality(getPeersByState(kvStoreDb[Self][Area], INITIALIZED)) >= 2
  /\ 2 * kInitialParallelSyncLimit = kMaxFullSyncPendingCountThreshold
  /\ kvStoreDb[Self][Area].parallelSyncLimitOverThrift
       = kMaxFullSyncPendingCountThreshold

----------------------------------------------------------------------------
(* Properties of a failed request (Spec).                                  *)

\* C33: when a full-sync, finalize-sync or flood request to a peer the
\* area still has fails, the peer is IDLE afterwards whatever its state
\* was, its backoff has advanced (it cannot be tried now), its client and
\* keep-alive timer are gone, its error count has grown by one, and the
\* sync timer of the area is armed.
FailureResetsPeer ==
  [][\A db \in {kvStoreDb[Self][Area]} : \A db1 \in {kvStoreDb'[Self][Area]} :
       \A p \in DOMAIN db.thriftPeers :
          (/\ rpcs' # rpcs /\ out'.op = "processThriftFailure"
           /\ out'.rcvd.senderId = p) =>
            /\ p \in DOMAIN db1.thriftPeers
            /\ db1.thriftPeers[p].state = IDLE
            /\ ~db1.thriftPeers[p].canTryNow
            /\ ~db1.thriftPeers[p].client
            /\ ~db1.thriftPeers[p].keepAliveTimer
            /\ db1.thriftPeers[p].numThriftApiErrors
                 = db.thriftPeers[p].numThriftApiErrors + 1
            /\ db1.thriftSyncTimer
            /\ ~aborted'[Self]]_vars

\* A flood of k1 to B, which had answered its full sync, has failed: B is
\* IDLE without a client and the sync timer is armed
FloodFailureResetPeer ==
  /\ out.op = "processThriftFailure" /\ out.rcvd.senderId = "B"
  /\ out.applied = {<<INITIALIZED, THRIFT_API_ERROR, IDLE>>}
  /\ "k1" \in DOMAIN kvStoreOf(Self, Area)
  /\ "B" \in DOMAIN peersOf(Self, Area)
  /\ peersOf(Self, Area)["B"].state = IDLE
  /\ ~peersOf(Self, Area)["B"].client
  /\ kvStoreDb[Self][Area].thriftSyncTimer

----------------------------------------------------------------------------
(* Properties of the rate-limit buffer (SpecFlood).                        *)

\* The step floods key k: the publication pushed to the subscribers and
\* the flood sent to every INITIALIZED peer carry k with the version,
\* originator and payload the map holds after the step, and k is queued
\* for every other peer
FloodedAtDrain(k) ==
  /\ \E i \in DOMAIN out'.pushed :
        /\ k \in DOMAIN out'.pushed[i].pub.keyVals
        /\ Tuple(out'.pushed[i].pub.keyVals[k]) = Tuple(kvStoreOf(Self, Area)'[k])
  /\ \A p \in DOMAIN peersOf(Self, Area) :
        IF peersOf(Self, Area)[p].state = INITIALIZED
        THEN \E r \in out'.sent :
                /\ r.purpose = "FLOOD_PUB" /\ r.to = p
                /\ k \in DOMAIN r.params.keyVals
                /\ Tuple(r.params.keyVals[k]) = Tuple(kvStoreOf(Self, Area)'[k])
        ELSE k \in peersOf(Self, Area)'[p].pendingKeysDuringInitialization

\* The step takes a token of floodLimiter_ while keys wait in
\* publicationBuffer_: the buffer is drained
Drains ==
  /\ kvStoreDb[Self][Area].publicationBuffer # {}
  /\ kvStoreDb'[Self][Area].floodTokens < kvStoreDb[Self][Area].floodTokens

\* Without a token, the keys of every change of the map are in the buffer
\* after the step and the pending-publication timer is armed; the buffer
\* loses a key only when it is drained, and is empty after a drain.
BufferKeepsSuppressedKeys ==
  \A db \in {kvStoreDb[Self][Area]} : \A db1 \in {kvStoreDb'[Self][Area]} :
     /\ Drains => db1.publicationBuffer = {}
     /\ ~Drains => db.publicationBuffer \subseteq db1.publicationBuffer
     /\ (db.floodRate /\ db.floodTokens = 0) =>
          \A k \in DOMAIN db.kvStore \cup DOMAIN db1.kvStore :
             (\/ k \notin DOMAIN db.kvStore \/ k \notin DOMAIN db1.kvStore
              \/ db.kvStore[k] # db1.kvStore[k]) =>
               k \in db1.publicationBuffer /\ db1.pendingPublicationTimer

\* C34 as stated: every key of a suppressed delta is kept in the buffer,
\* and the drain floods every buffered key with the record the map holds
\* then, or announces it as expired when the map no longer holds it; the
\* buffer is empty after the drain.
BufferedKeysAllFlooded ==
  [][/\ BufferKeepsSuppressedKeys
     /\ Drains =>
          \A k \in kvStoreDb[Self][Area].publicationBuffer :
             IF k \in DOMAIN kvStoreOf(Self, Area)'
             THEN FloodedAtDrain(k)
             ELSE \E i \in DOMAIN out'.pushed :
                     k \in out'.pushed[i].pub.expiredKeys]_vars

\* C34, amended: the same, except that a buffered key whose record has a
\* finite ttl with no more than ttlDecr left at the drain is flooded to
\* nobody and leaves the buffer all the same.
BufferedLastingKeysFlooded ==
  [][/\ BufferKeepsSuppressedKeys
     /\ Drains =>
          \A k \in kvStoreDb[Self][Area].publicationBuffer :
             IF k \notin DOMAIN kvStoreOf(Self, Area)'
             THEN \E i \in DOMAIN out'.pushed :
                     k \in out'.pushed[i].pub.expiredKeys
             ELSE IF \A e \in kvStoreDb'[Self][Area].ttlCountdownQueue :
                        EntryMatches(e, k, kvStoreOf(Self, Area)'[k]) =>
                          e.expiryTime - now > ttlDecr
             THEN FloodedAtDrain(k)
             ELSE /\ \A i \in DOMAIN out'.pushed :
                        k \notin DOMAIN out'.pushed[i].pub.keyVals
                  /\ \A r \in out'.sent : k \notin DOMAIN r.params.keyVals]_vars

\* The pending-publication timer has drained the buffer: k1 and k2, both
\* suppressed earlier, went to the subscribers and to B in one publication
BufferDrainedByTimer ==
  /\ out.op = "pendingPublicationTimer" /\ Len(out.pushed) = 1
  /\ DOMAIN out.pushed[1].pub.keyVals = {"k1", "k2"}
  /\ kvStoreDb[Self][Area].publicationBuffer = {}
  /\ \E r \in out.sent :
        /\ r.purpose = "FLOOD_PUB" /\ r.to = "B"
        /\ DOMAIN r.params.keyVals = {"k1", "k2"}

----------------------------------------------------------------------------
(* SpecDecay: the stores A and B, each the other's only peer, hold the key *)
(* k1 that C originated with a finite ttl, or lack it.  C no longer        *)
(* refreshes it and no client sets it.  The two full syncs, the finalize-  *)
(* syncs and the floods are delivered in any order while the clock runs    *)
(* and the countdown timers fire.                                          *)

\* The longest ttl of the run: the clock's range covers it
MaxDecayTtl == Min(MaxTtl + 1, MaxTime)

DecayRecords ==
  {Value(1, "C", "x", t, tv) : t \in 1..MaxDecayTtl, tv \in 0..MaxTtlVersion}

DecayMaps == {EmptyMap} \cup {[k \in {"k1"} |-> r] : r \in DecayRecords}

InitDecay ==
  \E held \in [MeshNodes -> DecayMaps], early \in BOOLEAN :
    /\ kvStoreDb = [n \in NodeIds |->
                      IF n \in MeshNodes THEN SyncStarted(n, held[n], early).dbs
                      ELSE EmptyMap]
    /\ initialSyncSignalSent = [n \in NodeIds |-> FALSE]
    /\ aborted = [n \in NodeIds |-> FALSE]
    /\ numKvStoreSynced = [n \in NodeIds |-> 0]
    /\ cmdKeySet = [n \in NodeIds |-> IF n \in MeshNodes THEN 1 ELSE 0]
    /\ rpcs = EmptyBag
    /\ now = 0
    /\ out = NoOut
    /\ alg = [phase |-> "decay", held |-> held]

DecayTtlTimer == \E n \in MeshNodes : TtlTimerFires(n, Area)

\* A request is answered within its timeout: once a record delivered
\* later could outlive the clock's range, the clock waits for the requests
\* in flight
DecayTick ==
  /\ now > MaxTime - MaxDecayTtl => rpcs = EmptyBag
  /\ Tick

NextDecay ==
  \/ MeshSync
  \/ MeshServe
  \/ MeshResponse
  \/ MeshDeliver
  \/ DecayTtlTimer
  \/ DecayTick

\* Timer callbacks run, requests and responses are delivered, time passes
DecayFairness ==
  /\ WF_vars(MeshServe)
  /\ WF_vars(MeshResponse)
  /\ WF_vars(MeshDeliver)
  /\ WF_vars(DecayTtlTimer)
  /\ WF_vars(DecayTick)

SpecDecay == InitDecay /\ [][NextDecay]_vars /\ DecayFairness

----------------------------------------------------------------------------
(* Properties of a key nobody refreshes (SpecDecay).                       *)

\* Every record with a finite ttl that the step sends, in a flood, a
\* finalize-sync or a full-sync response, has a positive ttl that is at
\* least ttlDecr below what the record has left at the sender
HopReducesTtl ==
  \A r \in (BagToSet(rpcs') \ BagToSet(rpcs)) :
     \A sender \in {IF r.resp = NoResp THEN r.from ELSE r.to} :
     \A keyVals \in {IF r.resp = NoResp
                     THEN (IF r.purpose = "FULL_SYNC" THEN EmptyMap
                           ELSE r.params.keyVals)
                     ELSE r.resp[1].keyVals} :
        \A k \in DOMAIN keyVals :
           /\ keyVals[k].ttl # kTtlInfinity
           /\ keyVals[k].ttl > 0
           /\ \E e \in kvStoreDb'[sender][r.area].ttlCountdownQueue :
                 /\ EntryMatches(e, k, keyVals[k])
                 /\ keyVals[k].ttl + ttlDecr <= e.expiryTime - now

NobodyHolds == \A n \in MeshNodes : "k1" \notin DOMAIN kvStoreOf(n, Area)

----------------------------------------------------------------------------
(* SpecQuiet: the mesh of A and B once more, with infinite ttls.  A client *)
(* of A persists k1, clients of either node set k1 a bounded number of     *)
(* times, and the full syncs, finalize-syncs, floods and A's advertisement *)
(* callbacks run in any order.                                             *)

QuietRecords ==
  {Value(1, "B", "y", kTtlInfinity, 0), Value(MaxVersion, "C", "x", kTtlInfinity, 0)}

QuietMaps ==
  {EmptyMap, [k \in {"k1"} |-> Hashed(Value(1, "B", "y", kTtlInfinity, 0))]}

InitQuiet ==
  \E held \in [MeshNodes -> QuietMaps] :
    /\ kvStoreDb = [n \in NodeIds |->
                      IF n \in MeshNodes THEN MeshStarted(n, held[n]).dbs
                      ELSE EmptyMap]
    /\ initialSyncSignalSent = [n \in NodeIds |-> FALSE]
    /\ aborted = [n \in NodeIds |-> FALSE]
    /\ numKvStoreSynced = [n \in NodeIds |-> 0]
    /\ cmdKeySet = [n \in NodeIds |-> 0]
    /\ rpcs = EmptyBag
    /\ now = 0
    /\ out = NoOut
    /\ alg = [phase |-> "quiet", held |-> held]

\* A client sets k1, while the mesh has taken fewer than MaxMeshSets
\* setKvStoreKeyVals calls from clients
QuietSetKey ==
  /\ cmdKeySet["B"] < MaxMeshSets
  /\ \E r \in QuietRecords :
       SetKey("B", Area, [keyVals |-> [k \in {"k1"} |-> r], nodeIds |-> <<>>])

QuietPersist == Persist("A", Area, "k1", "x")

QuietAdvertise ==
  \/ AdvertiseThrottleFires("A", Area)
  \/ AdvertiseKeyValsTimerFires("A", Area)

NextQuiet ==
  \/ MeshSync
  \/ MeshServe
  \/ MeshResponse
  \/ MeshDeliver
  \/ QuietSetKey
  \/ QuietPersist
  \/ QuietAdvertise

\* Requests in flight are served and delivered, and the advertisement
\* timers of A fire; injecting updates is left to the environment
QuietFairness ==
  /\ WF_vars(MeshServe) /\ WF_vars(MeshResponse) /\ WF_vars(MeshDeliver)
  /\ WF_vars(QuietAdvertise)

SpecQuiet == InitQuiet /\ [][NextQuiet]_vars /\ QuietFairness

----------------------------------------------------------------------------
(* Properties of redundant publications (SpecQuiet).                       *)

\* Record r beats what kvStore holds for key k: the key is new, or r is
\* greater in the (version, originator id, payload) order, or r is the
\* same record (or a ttl refresh of it) with a greater ttl version
Beats(r, kvStore, k) ==
  IF r.value # NoValue
  THEN \/ k \notin DOMAIN kvStore
       \/ TupleLess(kvStore[k], r)
       \/ /\ Tuple(kvStore[k]) = Tuple(r)
          /\ r.ttlVersion > kvStore[k].ttlVersion
  ELSE /\ k \in DOMAIN kvStore
       /\ r.version = kvStore[k].version
       /\ r.originatorId = kvStore[k].originatorId
       /\ r.ttlVersion > kvStore[k].ttlVersion

\* Merging, in the present state of either node, a publication whose
\* record does not beat the map's leaves the map as it is, pushes nothing
\* to the subscribers and sends nothing to the peers
RedundantMergeSilent ==
  \A n \in MeshNodes : \A r \in Records :
     ~Beats(r, kvStoreOf(n, Area), "k1") =>
        \A c \in {setKeyVals(Ctx(n), Area,
                             [keyVals |-> [k \in {"k1"} |-> r], nodeIds |-> <<>>],
                             Env("skip", "earliest", {}, <<>>))} :
           /\ c.dbs[Area].kvStore = kvStoreOf(n, Area)
           /\ c.pushed = <<>>
           /\ c.sent = {}

\* The step sends a flood
FloodSent ==
  /\ rpcs' # rpcs
  /\ \E r \in out'.sent : r.purpose = "FLOOD_PUB"

\* A flooded publication is on its way to a peer
FloodInFlight == \E r \in BagToSet(rpcs) : r.purpose = "FLOOD_PUB"

----------------------------------------------------------------------------
(* SpecZero: one store without peers, to which clients send records of     *)
(* version 0 as well as of version 1, with and without a value.            *)

ZeroRecords ==
  {Value(v, "B", p, kTtlInfinity, tv) :
     v \in 0..1, p \in Payloads \cup {NoValue}, tv \in 0..MaxTtlVersion}

ZeroKeySetParams ==
  {[keyVals |-> [k \in {key} |-> r], nodeIds |-> <<>>] :
     key \in {"k1", "k2"}, r \in ZeroRecords}

InitZero ==
  /\ kvStoreDb = StoreOf(Self, {Area})
  /\ initialSyncSignalSent = [n \in NodeIds |-> FALSE]
  /\ aborted = [n \in NodeIds |-> FALSE]
  /\ numKvStoreSynced = [n \in NodeIds |-> 0]
  /\ cmdKeySet = [n \in NodeIds |-> 0]
  /\ rpcs = EmptyBag
  /\ now = 0
  /\ out = NoOut
  /\ alg = [phase |-> "zero"]

NextZero == \E setParams \in ZeroKeySetParams : SetKey(Self, Area, setParams)

SpecZero == InitZero /\ [][NextZero]_vars

\* C37: every record in the map has version >= 1, and no merge has
\* aborted the process: a record of version 0 that carries a value is
\* dropped, whether or not the map has the key.
VersionsStartAtOne ==
  /\ \A k \in DOMAIN kvStoreOf(Self, Area) : kvStoreOf(Self, Area)[k].version >= 1
  /\ ~aborted[Self]

----------------------------------------------------------------------------
(* SpecOwn: a store without peers whose clients persist, set, unset and    *)
(* erase the key k1, while records for k1 that B originated are set.  The  *)
(* throttled callbacks and the advertisement timer fire in any order.      *)

\* A client sets a key: KvStore::processKeyValueRequest, SetKeyValueRequest
SetSelfKey(n, a, key, value, version) ==
  /\ Running(n) /\ cmdKeySet[n] < MaxKeySet
  /\ key \in DOMAIN kvStoreDb[n][a].kvStore =>
       kvStoreDb[n][a].kvStore[key].version <= MaxVersion
  /\ \E pick \in PickOptions(n, a) :
       Commit(n, setSelfOriginatedKey(Ctx(n), a, key, value, version,
                                      Env("skip", pick, {}, <<>>)),
              EmptyBag, EmptyBag, "setSelfOriginatedKey", a, NoneReceived)

\* A client erases a key: ClearKeyValueRequest without a value to set
EraseSelfKey(n, a, key) ==
  /\ Running(n)
  /\ Commit(n, eraseSelfOriginatedKey(Ctx(n), a, key),
            EmptyBag, EmptyBag, "eraseSelfOriginatedKey", a, NoneReceived)

OwnKeySetParams ==
  {[keyVals |-> [k \in {"k1"} |-> Value(v, "B", "x", kTtlInfinity, 0)],
    nodeIds |-> <<"B">>] : v \in 1..MaxVersion}

InitOwn ==
  /\ kvStoreDb = [n \in NodeIds |->
                    IF n = Self THEN Constructed(Self, {Area}).dbs ELSE EmptyMap]
  /\ initialSyncSignalSent = [n \in NodeIds |-> FALSE]
  /\ aborted = [n \in NodeIds |-> FALSE]
  /\ numKvStoreSynced = [n \in NodeIds |-> 0]
  /\ cmdKeySet = [n \in NodeIds |-> 0]
  /\ rpcs = EmptyBag
  /\ now = 0
  /\ out = NoOut
  /\ alg = [phase |-> "own"]

NextOwn ==
  \/ \E value \in Payloads : Persist(Self, Area, "k1", value)
  \/ \E value \in Payloads, version \in 0..1 :
       SetSelfKey(Self, Area, "k1", value, version)
  \/ Unset(Self, Area, "k1", Tombstone)
  \/ EraseSelfKey(Self, Area, "k1")
  \/ AdvertiseThrottleFires(Self, Area)
  \/ AdvertiseKeyValsTimerFires(Self, Area)
  \/ UnsetThrottleFires(Self, Area)
  \/ \E setParams \in OwnKeySetParams : SetKey(Self, Area, setParams)

SpecOwn == InitOwn /\ [][NextOwn]_vars

\* C38: every key pending advertisement is in the self-originated cache
\* with a key backoff, and the process is not aborted.
PendingKeysHaveBackoff ==
  /\ \A k \in kvStoreDb[Self][Area].keysToAdvertise :
       /\ k \in DOMAIN kvStoreDb[Self][Area].selfOriginatedKeyVals
       /\ kvStoreDb[Self][Area].selfOriginatedKeyVals[k].keyBackoff # "none"
  /\ ~aborted[Self]

----------------------------------------------------------------------------
(* SpecClient: one store whose peer B, outside the model, is added, added  *)
(* again and deleted while full syncs, floods of k1 and keep-alives run    *)
(* and any request may fail.                                               *)

\* A peer's keepAliveTimer fires
KeepAliveFires(n, a, p) ==
  /\ Running(n)
  /\ p \in DOMAIN kvStoreDb[n][a].thriftPeers
  /\ kvStoreDb[n][a].thriftPeers[p].keepAliveTimer
  /\ Commit(n, keepAliveTimerFires(Ctx(n), a, p),
            EmptyBag, EmptyBag, "keepAliveTimer", a,
            Received(p, EmptyPublication))

ClientKeySetParams ==
  {[keyVals |-> [k \in {"k1"} |-> Value(v, "C", "x", kTtlInfinity, 0)],
    nodeIds |-> <<>>] : v \in 1..MaxVersion}

ClientSyncResponses ==
  {Publication(EmptyMap, {}, <<>>, tbu) : tbu \in {{}, {"k1"}}}

InitClient == InitStore({Area})

NextClient ==
  \/ \E p \in {"B"} : AddPeersRpc(Self, Area, [q \in {p} |-> PeerAddr])
  \/ \E p \in {"B"} : DelPeersRpc(Self, Area, {p})
  \/ SyncTimerFires(Self, Area)
  \/ \E r \in BagToSet(rpcs), pub \in ClientSyncResponses :
       EnvFullSyncSuccess(r, pub)
  \/ \E r \in BagToSet(rpcs) : EnvAck(r)
  \/ \E r \in BagToSet(rpcs) : ThriftFailure(r)
  \/ \E p \in {"B"} : BackoffElapsed(Self, Area, p)
  \/ \E p \in {"B"} : KeepAliveFires(Self, Area, p)
  \/ \E setParams \in ClientKeySetParams : SetKey(Self, Area, setParams)

SpecClient == InitClient /\ [][NextClient]_vars

\* C39: a peer that is SYNCING or INITIALIZED, or whose keep-alive timer
\* is armed, has a client; and no flood, finalize-sync or keep-alive has
\* found the client absent (which aborts the process).
PeerInUseHasClient ==
  /\ \A p \in DOMAIN peersOf(Self, Area) :
       (\/ peersOf(Self, Area)[p].state \in {SYNCING, INITIALIZED}
        \/ peersOf(Self, Area)[p].keepAliveTimer) => peersOf(Self, Area)[p].client
  /\ ~aborted[Self]

\* k1 is flooded to B over the client made after an earlier request to B
\* had failed and B had been synced again
FloodedOverRenewedClient ==
  /\ out.op = "setKeyVals"
  /\ "B" \in DOMAIN peersOf(Self, Area)
  /\ peersOf(Self, Area)["B"].state = INITIALIZED
  /\ peersOf(Self, Area)["B"].client
  /\ peersOf(Self, Area)["B"].numThriftApiErrors > 0
  /\ \E r \in out.sent : r.purpose = "FLOOD_PUB" /\ r.to = "B"

----------------------------------------------------------------------------
(* SpecIdle: the store with the three neighbours of SpecCap; B is added    *)
(* again and deleted, requests succeed or fail, and every connection       *)
(* attempt of requestThriftPeerSync succeeds.                              *)

\* thriftSyncTimer_ fires and every client it asks for can be created
SyncTimerFiresConnected(n, a) ==
  /\ Running(n)
  /\ kvStoreDb[n][a].thriftSyncTimer
  /\ \E order \in Orders(DOMAIN kvStoreDb[n][a].thriftPeers) :
       Commit(n, requestThriftPeerSync(
                   Ctx(n), a,
                   Env("skip", "earliest", Unconnected(n, a), order)),
              EmptyBag, EmptyBag, "requestThriftPeerSync", a, NoneReceived)

IdleSync == SyncTimerFiresConnected(Self, Area)

IdleResponse == \E r \in BagToSet(rpcs) : EnvFullSyncSuccess(r, EmptyPublication)

IdleBackoff == \E p \in CapPeers : BackoffElapsed(Self, Area, p)

\* B is added again and its client is made
IdleAdd ==
  /\ Running(Self)
  /\ Commit(Self, semifuture_addUpdateKvStorePeers(
                    Ctx(Self), Area, [q \in {"B"} |-> PeerAddr],
                    Env("skip", "earliest", {"B"}, <<>>)),
            EmptyBag, EmptyBag, "addUpdateKvStorePeers", Area, NoneReceived)

NextIdle ==
  \/ IdleSync
  \/ IdleResponse
  \/ IdleBackoff
  \/ \E r \in BagToSet(rpcs) : ThriftFailure(r)
  \/ IdleAdd
  \/ DelPeersRpc(Self, Area, {"B"})

\* The event base runs the sync timer when it is due, the backoff period
\* of every peer ends, and every request is answered
IdleFairness ==
  /\ WF_vars(IdleSync) /\ WF_vars(IdleResponse)
  /\ \A p \in CapPeers : WF_vars(BackoffElapsed(Self, Area, p))

SpecIdle == InitCap /\ [][NextIdle]_vars /\ IdleFairness

\* The sync timer of the area is armed whenever one of its peers is IDLE
IdleArmsSyncTimer ==
  getPeersByState(kvStoreDb[Self][Area], IDLE) # {} =>
     kvStoreDb[Self][Area].thriftSyncTimer

\* Peer p is SYNCING with a full-sync request to it in flight
SyncRequested(p) ==
  /\ p \in DOMAIN peersOf(Self, Area)
  /\ peersOf(Self, Area)[p].state = SYNCING
  /\ \E r \in BagToSet(rpcs) : r.purpose = "FULL_SYNC" /\ r.to = p

\* C40: while a peer of the area is IDLE the sync timer of the area is
\* armed, and every IDLE peer is eventually SYNCING with a full-sync
\* request sent to it, unless it is deleted first.
IdlePeerEventuallySynced ==
  /\ []IdleArmsSyncTimer
  /\ \A p \in CapPeers :
       (p \in DOMAIN peersOf(Self, Area) /\ peersOf(Self, Area)[p].state = IDLE)
          ~> (p \notin DOMAIN peersOf(Self, Area) \/ SyncRequested(p))

\* D, whose request had failed, was left IDLE by a round that stopped at
\* the parallel-sync limit, and is promoted by the next round
LimitedPeerPromoted ==
  /\ out.op = "requestThriftPeerSync"
  /\ <<IDLE, PEER_ADD, SYNCING>> \in out.applied
  /\ SyncRequested("D")
  /\ peersOf(Self, Area)["D"].numThriftApiErrors > 0
  /\ Cardinality(getPeersByState(kvStoreDb[Self][Area], SYNCING)) >
       kvStoreDb[Self][Area].parallelSyncLimitOverThrift

====
